---------------------------- MODULE Spec2Model ----------------------------
(***************************************************************************)
(* Exam proctoring back end (proctor-api): the exam-recording lifecycle,   *)
(* the warning escalation and the listing engine of proctorapi/api.py,     *)
(* over the tables of proctorapi/models.py.                                *)
(*                                                                         *)
(* Times are whole seconds since an arbitrary origin.  A nullable column   *)
(* holds NULL when it is None.  Every handler is one action of Spec (a     *)
(* request runs to completion); SpecConc splits the handlers that write    *)
(* time_ended into the read of the row and the commit of the session.      *)
(***************************************************************************)
EXTENDS Integers, Sequences, FiniteSets, TLC

VARIABLES
    now,                \* datetime.utcnow()
    exams,              \* table exams: exam_id -> row
    next_exam_id,       \* AUTO_INCREMENT of exams
    recs,               \* table examRecordings: exam_recording_id -> row
    next_recording_id,  \* AUTO_INCREMENT of examRecordings
    warns,              \* table examWarnings: exam_warning_id -> row
    next_warning_id,    \* AUTO_INCREMENT of examWarnings
    resp,               \* the response to the last request (SpecList: or
                        \* the listing request received and not yet served)
    sess,               \* SpecConc: the open session of each worker
    pager               \* SpecPaging: the client that asks for a listing
                        \* page by page

vars == <<now, exams, next_exam_id, recs, next_recording_id, warns, next_warning_id,
          resp, sess, pager>>

----------------------------------------------------------------------------
(* Values *)

\* None of a nullable column or of an absent request argument.
NULL == -1

\* timedelta(hours=h, minutes=m): the seconds of a minute and of an hour.
SecondsPerMinute == 60
SecondsPerHour == 3600

MAX_WARNING_COUNT == 3

\* Bounds of the exploration.
TickLen == 30           \* seconds the clock advances in one step
MaxTicks == 4           \* the clock stops after MaxTicks steps

MaxNow == TickLen * MaxTicks

\* exam.duration values (datetime.time): hour, minute, second.
Durations ==
    { [hour |-> 0, minute |-> 0, second |-> 30],
      [hour |-> 0, minute |-> 1, second |-> 0] }

\* The length of a duration, all three fields counted.
DurationSeconds(d) ==
    d.hour * SecondsPerHour + d.minute * SecondsPerMinute + d.second

----------------------------------------------------------------------------
(* Users, roles and tokens.  Users are registered before the run: user 1   *)
(* with the examiner passphrase, user 2 without.  A password is a number;  *)
(* check_password_hash is the equality of the two numbers.                 *)

ExaminerId == 1
ExamineeId == 2
UnregisteredId == 9

users ==
    [u \in {ExaminerId, ExamineeId} |->
        IF u = ExaminerId
        THEN [is_examiner |-> TRUE,  role_id |-> 1, password |-> 101]
        ELSE [is_examiner |-> FALSE, role_id |-> 2, password |-> 102]]

\* What decode_auth_token returns for a token that does not decode (a
\* message string, equal to no user_id).
InvalidTokenUser == 0

\* A token is the user_id it was issued for, or InvalidTokenUser.
Tokens == DOMAIN users \cup {InvalidTokenUser}

decode_auth_token(token) ==
    IF token \in DOMAIN users THEN token ELSE InvalidTokenUser

authenticate_token(token) == decode_auth_token(token)

\* Mutant: every registered user counts as an examiner.
is_examiner_any_user(user_id) ==
    user_id \in DOMAIN users

is_examiner(user_id) ==
    user_id \in DOMAIN users /\ users[user_id].role_id = 1

is_user(user_id) == user_id \in DOMAIN users

\* Mutant: any user_id in the query string passes for the caller's own.
is_self_any_user(user_id, query_user_id) ==
    query_user_id # NULL /\ user_id # NULL

\* query_user_id is request.args user_id (NULL when absent).
is_self(user_id, query_user_id) ==
    user_id = query_user_id /\ user_id # NULL

\* User.authenticate(**kwargs): the user, or NULL.  data is the payload, a
\* function from its keys to their values.
Has(data, key) == key \in DOMAIN data

Get(data, key) == IF Has(data, key) THEN data[key] ELSE NULL

\* not kwargs.get(field): an absent key, None, 0 and "" are all falsy.
Falsy(data, key) ==
    \/ ~Has(data, key)
    \/ data[key] = NULL
    \/ data[key] = 0

authenticate(data) ==
    IF Falsy(data, "user_id") \/ Falsy(data, "password")
    THEN NULL
    ELSE IF /\ data["user_id"] \in DOMAIN users
            /\ users[data["user_id"]].password = data["password"]
         THEN data["user_id"]
         ELSE NULL

\* pre_init_check(required_fields, **kwargs): the missing fields.
pre_init_check(required, data) == { f \in required : Falsy(data, f) }

RequiredExamRecording == {"exam_id", "user_id"}
RequiredExamWarning == {"exam_recording_id", "warning_time", "description"}

\* The keyword parameters of the two constructors called with **data: any
\* other key of the payload raises TypeError.
ExamRecordingInitParams ==
    {"exam_id", "user_id", "time_started", "time_ended", "video_link"}
ExamWarningInitParams == {"exam_recording_id", "warning_time", "description"}

\* parse_datetime: None stays None, a string is parsed to its datetime.
parse_datetime(input_var) == IF input_var = NULL THEN NULL ELSE input_var

\* datetime_to_str: None stays None; "%Y-%m-%d %H:%M:%S" keeps the seconds.
datetime_to_str(datetime_obj) ==
    IF datetime_obj = NULL THEN NULL ELSE datetime_obj

----------------------------------------------------------------------------
(* Requests *)

\* The function with no key: a payload piece that adds nothing.
Nothing == [k \in {} |-> NULL]

Opt(key, values) == {Nothing} \cup { (key :> v) : v \in values }

\* Who calls: the token and the user_id of the query string.
Allowed ==
    { [token |-> ExaminerId, user_id |-> NULL],
      [token |-> ExamineeId, user_id |-> ExamineeId] }

Denied ==
    { [token |-> ExamineeId, user_id |-> NULL],
      [token |-> InvalidTokenUser, user_id |-> NULL] }

Callers == Allowed \cup Denied

PayloadTimes == {0}
VideoLinks == {1}

\* JSON bodies of POST /examinee/exam_recording/create: for the exam and a
\* registered user, the pair alone or with one more key; then a user that is
\* not registered, an exam that does not exist, and a required key missing.
CreateRecordingPayloads ==
    { ("exam_id" :> 1) @@ ("user_id" :> u) @@ x :
        u \in {ExaminerId, ExamineeId},
        x \in Opt("password", {101, 102}) \cup Opt("time_started", {0})
                \cup Opt("time_ended", PayloadTimes) }
    \cup { ("exam_id" :> 1) @@ ("user_id" :> UnregisteredId),
           ("exam_id" :> 2) @@ ("user_id" :> ExamineeId),
           ("user_id" :> ExamineeId),
           ("exam_id" :> 1) }

\* The requests: a registered caller with every payload, and a caller whose
\* token does not decode.
CreateRecordingRequests ==
    { [token |-> ExamineeId, data |-> data] : data \in CreateRecordingPayloads }
    \cup { [token |-> InvalidTokenUser,
            data |-> ("exam_id" :> 1) @@ ("user_id" :> ExamineeId)] }

----------------------------------------------------------------------------
(* The store *)

\* A response: the status, what the body says and the row id the body names.
Response(op, status, message, id) ==
    [op |-> op, status |-> status, message |-> message, id |-> id]

ExamRow(duration) ==
    [ start_date |-> TickLen,
      end_date   |-> 3 * TickLen,
      duration   |-> duration,
      subject_id |-> 1 ]

\* The paging client before it asks for a first page.
NoWalk == [pc |-> "idle"]

Workers == {1, 2}
Idle == [pc |-> "idle"]

Init ==
    /\ now = 0
    /\ \E d \in Durations : exams = (1 :> ExamRow(d))
    /\ next_exam_id = 2
    /\ recs = Nothing
    /\ next_recording_id = 1
    /\ warns = Nothing
    /\ next_warning_id = 1
    /\ resp = Response("none", 0, "", NULL)
    /\ sess = [w \in Workers |-> Idle]
    /\ pager = NoWalk

\* Time passes between requests.
Tick ==
    /\ now + TickLen <= MaxNow
    /\ now' = now + TickLen
    /\ UNCHANGED <<exams, next_exam_id, recs, next_recording_id, warns, next_warning_id, resp, sess,
                   pager>>

----------------------------------------------------------------------------
(* POST /examinee/exam_recording/create *)

\* Mutant: the two columns of the lookup are exchanged.
existing_recording_swapped(data) ==
    \E r \in DOMAIN recs :
        recs[r].user_id = data["exam_id"] /\ recs[r].exam_id = data["user_id"]

\* ExamRecording.query.filter_by(user_id=..., exam_id=...).first()
existing_recording(data) ==
    \E r \in DOMAIN recs :
        recs[r].user_id = data["user_id"] /\ recs[r].exam_id = data["exam_id"]

\* examiner and examiner.is_examiner, examiner = User.authenticate(**data)
OverrideAuthorized(data) ==
    /\ authenticate(data) # NULL
    /\ users[authenticate(data)].is_examiner

\* Neither "has already ended" nor "has not started" is answered.
ExamWindowOpen(exam, t) ==
    /\ ~(exam.end_date <= t)
    /\ ~(exam.start_date >= t)

\* ExamRecording(**data), then time_started = utcnow().
NewExamRecording(data, t) ==
    [ exam_id      |-> data["exam_id"],
      user_id      |-> data["user_id"],
      time_started |-> t,
      time_ended   |-> parse_datetime(Get(data, "time_ended")),
      video_link   |-> Get(data, "video_link") ]

\* The answer of the handler: <<status, message>>; 201 is the only one that
\* inserts.
create_exam_recording_answer(token, data) ==
    IF ~is_user(authenticate_token(token)) THEN <<403, "access denied">>
    ELSE IF pre_init_check(RequiredExamRecording, data) # {}
         THEN <<400, "missing fields">>
    ELSE IF existing_recording(data) /\ ~OverrideAuthorized(data)
         THEN <<401, "previously attempted">>
    ELSE IF data["exam_id"] \notin DOMAIN exams
         THEN <<401, "exam does not exist">>
    ELSE IF ~ExamWindowOpen(exams[data["exam_id"]], now)
         THEN <<401, "exam ended or not started">>
    \* TypeError: __init__() got an unexpected keyword argument
    ELSE IF ~(DOMAIN data \subseteq ExamRecordingInitParams)
         THEN <<500, "exception">>
    \* IntegrityError: examRecordings.user_id references users.user_id
    ELSE IF data["user_id"] \notin DOMAIN users
         THEN <<500, "exception">>
    ELSE <<201, "created">>

create_exam_recording(token, data) ==
    LET answer == create_exam_recording_answer(token, data) IN
    /\ IF answer[1] = 201
       THEN /\ recs' = recs @@ (next_recording_id :> NewExamRecording(data, now))
            /\ next_recording_id' = next_recording_id + 1
            /\ resp' = Response("create_exam_recording", 201, answer[2],
                                next_recording_id)
       ELSE /\ UNCHANGED <<recs, next_recording_id>>
            /\ resp' = Response("create_exam_recording", answer[1], answer[2], NULL)
    /\ UNCHANGED <<now, pager, exams, next_exam_id, warns, next_warning_id, sess>>

----------------------------------------------------------------------------
(* get_request_args and filter_results, for main_class = ExamRecording *)

Truthy(v) == v # NULL /\ v # 0

Min(a, b) == IF a <= b THEN a ELSE b

\* request.args of a listing with no argument given.
NoArgs ==
    [ user_id |-> NULL, is_examiner |-> NULL, exam_warning_id |-> NULL,
      exam_recording_id |-> NULL, in_progress |-> NULL, exam_id |-> NULL,
      subject_id |-> NULL, warning_count |-> NULL, min_warnings |-> NULL,
      max_warnings |-> NULL, period_start |-> NULL, period_end |-> NULL,
      order_by |-> "default", order |-> "desc",
      page_number |-> NULL, results_length |-> NULL ]

\* The typed arguments: flags become x == 1, the page defaults to (1, 25)
\* and a value below 1 becomes 1.
get_request_args(q) ==
    [ q EXCEPT
        !.is_examiner = IF @ = NULL THEN NULL ELSE IF @ = 1 THEN 1 ELSE 0,
        !.in_progress = IF @ = NULL THEN NULL ELSE IF @ = 1 THEN 1 ELSE 0,
        !.page_number = IF @ = NULL THEN 1 ELSE IF @ < 1 THEN 1 ELSE @,
        !.results_length = IF @ = NULL THEN 25 ELSE IF @ < 1 THEN 1 ELSE @ ]

\* The warnings the outer join gives recording r, under the WHERE clause on
\* exam_warning_id.
JoinedWarnings(r, args) ==
    { w \in DOMAIN warns :
        /\ warns[w].exam_recording_id = r
        /\ Truthy(args.exam_warning_id) => w = args.exam_warning_id }

\* func.count(ExamWarning.exam_recording_id) of the group of r.
ew_count(r, args) == Cardinality(JoinedWarnings(r, args))

\* WHERE and HAVING of the recording listing.
RecordingMatches(r, args, t) ==
    LET er == recs[r] IN
    /\ er.user_id \in DOMAIN users
    /\ er.exam_id \in DOMAIN exams
    /\ Truthy(args.user_id) => er.user_id = args.user_id
    /\ args.is_examiner # NULL =>
          users[er.user_id].is_examiner = (args.is_examiner = 1)
    /\ Truthy(args.exam_warning_id) => JoinedWarnings(r, args) # {}
    /\ Truthy(args.exam_recording_id) => r = args.exam_recording_id
    /\ Truthy(args.subject_id) => exams[er.exam_id].subject_id = args.subject_id
    /\ Truthy(args.exam_id) => er.exam_id = args.exam_id
    /\ Truthy(args.warning_count) => ew_count(r, args) = args.warning_count
    /\ Truthy(args.min_warnings) => ew_count(r, args) >= args.min_warnings
    /\ Truthy(args.max_warnings) => ew_count(r, args) <= args.max_warnings
    /\ args.period_start # NULL =>
          er.time_started # NULL /\ er.time_started >= args.period_start
    /\ args.period_end # NULL =>
          er.time_ended # NULL /\ er.time_ended <= args.period_end
    /\ args.in_progress = 1 => er.time_ended = NULL
    /\ args.in_progress = 0 => er.time_ended # NULL /\ er.time_ended < t

\* ORDER BY column: time_ended when asked, time_started otherwise.  NULL
\* sorts below every datetime, as MySQL orders it.
OrderKey(r, args) ==
    IF args.order_by = "time_ended" THEN recs[r].time_ended
    ELSE recs[r].time_started

InOrder(a, b, args) ==
    IF args.order = "asc" THEN OrderKey(a, args) <= OrderKey(b, args)
    ELSE OrderKey(a, args) >= OrderKey(b, args)

\* Every order the database may return the matching rows in: rows with equal
\* keys come in any order.
OrderedResults(args, t) ==
    LET S == { r \in DOMAIN recs : RecordingMatches(r, args, t) }
        n == Cardinality(S)
    IN { s \in [1..n -> S] :
           /\ \A i, j \in 1..n : i # j => s[i] # s[j]
           /\ \A i \in 1..n : i < n => InOrder(s[i], s[i + 1], args) }

\* Mutant: the slice is compared with the page size, not with one more.
next_page_exists_no_peek(all, args) ==
    Len(SubSeq(all, (args.page_number - 1) * args.results_length + 1,
               Min(Len(all), (args.page_number - 1) * args.results_length
                               + args.results_length + 1)))
        = args.results_length

\* results[offset : offset + results_length + 1]
PageSlice(all, args) ==
    LET offset == (args.page_number - 1) * args.results_length
    IN SubSeq(all, offset + 1, Min(Len(all), offset + args.results_length + 1))

next_page_exists(all, args) ==
    Len(PageSlice(all, args)) = args.results_length + 1

\* The page returned: the slice without its extra row.
filter_results(all, args) ==
    IF next_page_exists(all, args)
    THEN SubSeq(PageSlice(all, args), 1, args.results_length)
    ELSE PageSlice(all, args)

----------------------------------------------------------------------------
(* GET /examinee/exam_recording *)

\* er.time_started + timedelta(hours=duration.hour, minutes=duration.minute)
latest_finish_time(er, e) ==
    er.time_started + e.duration.hour * SecondsPerHour
                    + e.duration.minute * SecondsPerMinute

\* Mutant: the loop body's test without the check that the recording is
\* still in progress.
LazyExpires_rewrites(er, e, t) ==
    /\ latest_finish_time(er, e) <= t

\* The loop body's test: the row is written (updated = True).
LazyExpires(er, e, t) ==
    /\ er.time_ended = NULL
    /\ latest_finish_time(er, e) <= t

\* The row after the loop body.
AfterLazyExpiry(er, e, t) ==
    IF LazyExpires(er, e, t)
    THEN [er EXCEPT !.time_ended = latest_finish_time(er, e)]
    ELSE er

\* Mutant: every row of the page is appended to the response.
Listed_every_row(er, e, t, q) == TRUE

\* if not (updated and in_progress): the row is appended to the response.
Listed(er, e, t, q) ==
    ~(LazyExpires(er, e, t) /\ q.in_progress = 1)

RecordingItem(r, er, args) ==
    [ exam_recording_id |-> r,
      user_id           |-> er.user_id,
      time_started      |-> datetime_to_str(er.time_started),
      time_ended        |-> datetime_to_str(er.time_ended),
      warning_count     |-> ew_count(r, args) ]

RECURSIVE RecordingItems(_, _, _)
RecordingItems(page, q, args) ==
    IF page = <<>> THEN <<>>
    ELSE LET r == Head(page)
             e == exams[recs[r].exam_id]
             rest == RecordingItems(Tail(page), q, args)
         IN IF Listed(recs[r], e, now, q)
            THEN <<RecordingItem(r, AfterLazyExpiry(recs[r], e, now), args)>> \o rest
            ELSE rest

InSeq(x, s) == \E i \in 1..Len(s) : s[i] = x

get_exam_recording(token, q) ==
    LET user_id == authenticate_token(token)
        args == get_request_args(q)
    IN
    /\ IF is_examiner(user_id) \/ is_self(user_id, q.user_id)
       THEN \E all \in OrderedResults(args, now) :
              LET page == filter_results(all, args) IN
              /\ recs' = [ r \in DOMAIN recs |->
                            IF InSeq(r, page)
                            THEN AfterLazyExpiry(recs[r], exams[recs[r].exam_id], now)
                            ELSE recs[r] ]
              /\ resp' = [ op |-> "get_exam_recording", status |-> 200,
                           message |-> "ok", id |-> NULL,
                           exam_recordings |-> RecordingItems(page, q, args),
                           next_page_exists |-> next_page_exists(all, args) ]
       ELSE /\ UNCHANGED recs
            /\ resp' = Response("get_exam_recording", 403, "access denied", NULL)
    /\ UNCHANGED <<now, pager, exams, next_exam_id, next_recording_id, warns, next_warning_id, sess>>

\* Requests of the recording listing: an allowed caller with the in_progress
\* filter and the default page; the examiner with both orders over pages of
\* one row, and ordered by time_ended; a caller who is denied.
RecordingQueries ==
    { [token |-> c.token,
       args |-> [NoArgs EXCEPT !.user_id = c.user_id, !.in_progress = ip]] :
        c \in Allowed, ip \in {NULL, 0, 1} }
    \cup { [token |-> ExaminerId,
            args |-> [NoArgs EXCEPT !.order = o, !.page_number = pg,
                                    !.results_length = 1]] :
             o \in {"asc", "desc"}, pg \in {1, 2} }
    \cup { [token |-> ExaminerId, args |-> [NoArgs EXCEPT !.order_by = "time_ended"]] }
    \cup { [token |-> c.token, args |-> [NoArgs EXCEPT !.user_id = c.user_id]] :
             c \in Denied }

----------------------------------------------------------------------------
(* POST /examinee/exam_recording/update *)

\* Mutant: the test of time_ended is left out of action = end.
already_ended_never(er) == FALSE

\* exam_recording.time_ended is not None: action = end is refused.
already_ended(er) == er.time_ended # NULL

\* The answer of the handler: <<status, message, id named>>; 200 is the only
\* one that commits.  d is the payload: exam_recording_id, action ("" when
\* absent) and video_link.
update_exam_recording_answer(token, query_user_id, d) ==
    LET user_id == authenticate_token(token)
        id == d.exam_recording_id
    IN
    IF ~(is_examiner(user_id) \/ is_self(user_id, query_user_id))
    THEN <<403, "access denied", NULL>>
    ELSE IF ~Truthy(id) \/ d.action = ""
         THEN <<400, "no exam_recording_id / action", NULL>>
    ELSE IF id \notin DOMAIN recs THEN <<404, "not found", id>>
    ELSE IF d.action = "end"
         THEN IF already_ended(recs[id])
              THEN <<400, "has already ended", id>>
              ELSE <<200, "ended", id>>
    ELSE IF d.action = "update_link"
         THEN IF ~Truthy(d.video_link)
              THEN <<400, "no video_link", NULL>>
              ELSE <<200, "link updated", id>>
    ELSE <<400, "include parameter action", NULL>>

\* Mutant: action = end stamps time_started as well.
UpdatedRecording_restarts(er, d, t) ==
    IF d.action = "end" THEN [er EXCEPT !.time_ended = t, !.time_started = t]
    ELSE [er EXCEPT !.video_link = d.video_link]

\* Mutant: action = update_link reopens the recording.
UpdatedRecording_link_reopens(er, d, t) ==
    IF d.action = "end" THEN [er EXCEPT !.time_ended = t]
    ELSE [er EXCEPT !.video_link = d.video_link, !.time_ended = NULL]

\* The row as the handler leaves it in the session before the commit.
UpdatedRecording(er, d, t) ==
    IF d.action = "end" THEN [er EXCEPT !.time_ended = t]
    ELSE [er EXCEPT !.video_link = d.video_link]

update_exam_recording(token, query_user_id, d) ==
    LET answer == update_exam_recording_answer(token, query_user_id, d) IN
    /\ IF answer[1] = 200
       THEN recs' = [recs EXCEPT ![d.exam_recording_id] = UpdatedRecording(@, d, now)]
       ELSE UNCHANGED recs
    /\ resp' = Response("update_exam_recording", answer[1], answer[2], answer[3])
    /\ UNCHANGED <<now, pager, exams, next_exam_id, next_recording_id, warns, next_warning_id, sess>>

UpdateRecordingPayloads ==
    { [exam_recording_id |-> r, action |-> "end", video_link |-> NULL] :
        r \in {1, 2, 3} }
    \cup { [exam_recording_id |-> r, action |-> "update_link", video_link |-> v] :
             r \in {1, 2}, v \in VideoLinks }
    \cup { [exam_recording_id |-> 1, action |-> "update_link", video_link |-> NULL],
           [exam_recording_id |-> 1, action |-> "pause", video_link |-> NULL],
           [exam_recording_id |-> NULL, action |-> "end", video_link |-> NULL] }

\* The requests: an allowed caller with every payload, a denied caller with
\* a manual end.
UpdateRecordingRequests ==
    { [token |-> c.token, user_id |-> c.user_id, d |-> d] :
        c \in Allowed, d \in UpdateRecordingPayloads }
    \cup { [token |-> c.token, user_id |-> c.user_id,
            d |-> [exam_recording_id |-> 1, action |-> "end", video_link |-> NULL]] :
             c \in Denied }

----------------------------------------------------------------------------
(* POST /examiner/exam_warning/create *)

\* ExamWarning.query.filter_by(exam_recording_id=...).all()
prev_warnings(r) == { w \in DOMAIN warns : warns[w].exam_recording_id = r }

\* len(prev_warnings) == MAX_WARNING_COUNT-1
ReachesLimit(r) == Cardinality(prev_warnings(r)) = MAX_WARNING_COUNT - 1

\* ExamWarning(**data)
NewExamWarning(data) ==
    [ exam_recording_id |-> data["exam_recording_id"],
      warning_time      |-> parse_datetime(data["warning_time"]),
      description       |-> data["description"] ]

\* The answer of the handler: <<status, message>>; 201 is the only one that
\* commits.
create_exam_warning_answer(data) ==
    \* KeyError: data['token']
    IF ~Has(data, "token") THEN <<500, "exception">>
    ELSE IF ~is_examiner(decode_auth_token(data["token"]))
         THEN <<403, "access denied">>
    ELSE IF pre_init_check(RequiredExamWarning, data) # {}
         THEN <<400, "missing fields">>
    \* TypeError: __init__() got an unexpected keyword argument
    ELSE IF ~(DOMAIN data \subseteq ExamWarningInitParams)
         THEN <<500, "exception">>
    \* AttributeError on None, or IntegrityError: examWarnings.exam_recording_id
    \* references examRecordings.exam_recording_id
    ELSE IF data["exam_recording_id"] \notin DOMAIN recs
         THEN <<500, "exception">>
    ELSE <<201, "created">>

create_exam_warning(data) ==
    LET answer == create_exam_warning_answer(data)
        r == Get(data, "exam_recording_id")
    IN
    /\ IF answer[1] = 201
       THEN /\ warns' = warns @@ (next_warning_id :> NewExamWarning(data))
            /\ next_warning_id' = next_warning_id + 1
            /\ recs' = IF ReachesLimit(r) /\ recs[r].time_ended = NULL
                       THEN [recs EXCEPT ![r].time_ended = now]
                       ELSE recs
            /\ resp' = [ op |-> "create_exam_warning", status |-> 201,
                         message |-> answer[2], id |-> next_warning_id,
                         warning_count |-> Cardinality(prev_warnings(r)) + 1 ]
       ELSE /\ UNCHANGED <<warns, next_warning_id, recs>>
            /\ resp' = Response("create_exam_warning", answer[1], answer[2], NULL)
    /\ UNCHANGED <<now, pager, exams, next_exam_id, next_recording_id, sess>>

\* JSON bodies of POST /examiner/exam_warning/create.
CreateWarningPayloads ==
    { t @@ r @@ ("warning_time" :> 1) @@ ("description" :> 1) :
        t \in Opt("token", {ExaminerId}),
        r \in Opt("exam_recording_id", {1, 2}) }
    \cup { ("token" :> ExamineeId) @@ ("exam_recording_id" :> 1)
             @@ ("warning_time" :> 1) @@ ("description" :> 1) }

----------------------------------------------------------------------------
(* Requests served one at a time *)

Next ==
    \/ Tick
    \/ \E rq \in CreateRecordingRequests :
          create_exam_recording(rq.token, rq.data)
    \/ \E q \in RecordingQueries :
          get_exam_recording(q.token, q.args)
    \/ \E rq \in UpdateRecordingRequests :
          update_exam_recording(rq.token, rq.user_id, rq.d)
    \/ \E data \in CreateWarningPayloads :
          create_exam_warning(data)

Spec == Init /\ [][Next]_vars

----------------------------------------------------------------------------
(* Concurrent requests: each worker serves one request at a time in its    *)
(* own session.  A handler that writes time_ended reads the row, tests and *)
(* sets the attribute on its session's copy, and db.session.commit() later *)
(* flushes UPDATE examRecordings SET time_ended = ... WHERE                *)
(* exam_recording_id = ... .  Creation is taken in one step.               *)

\* The session of a worker between the handler's read and its commit:
\* rows maps each dirty exam_recording_id to the time_ended to flush.
Pending(op, id, rows) == [pc |-> "commit", op |-> op, id |-> id, rows |-> rows]

\* The one creation the concurrent runs start from.
ConcCreateToken == ExamineeId
ConcCreatePayload == ("exam_id" :> 1) @@ ("user_id" :> ExamineeId)

\* update_exam_recording with action = end by an examiner, up to the commit.
update_exam_recording_read(w, r) ==
    /\ sess[w] = Idle
    /\ r \in DOMAIN recs
    /\ IF already_ended(recs[r])
       THEN /\ resp' = Response("update_exam_recording", 400, "has already ended", r)
            /\ UNCHANGED sess
       ELSE /\ sess' = [sess EXCEPT ![w] =
                          Pending("update_exam_recording", r, (r :> now))]
            /\ UNCHANGED resp
    /\ UNCHANGED <<now, pager, exams, next_exam_id, recs, next_recording_id, warns, next_warning_id>>

\* get_exam_recording by an examiner without arguments, up to the commit.
get_exam_recording_read(w) ==
    /\ sess[w] = Idle
    /\ LET dirty == { r \in DOMAIN recs :
                        LazyExpires(recs[r], exams[recs[r].exam_id], now) }
       IN sess' = [sess EXCEPT ![w] =
                     Pending("get_exam_recording", NULL,
                             [r \in dirty |->
                                latest_finish_time(recs[r], exams[recs[r].exam_id])])]
    /\ UNCHANGED <<now, pager, exams, next_exam_id, recs, next_recording_id, warns, next_warning_id, resp>>

\* The warning creation the concurrent runs try.
ConcWarningPayload ==
    ("token" :> ExaminerId) @@ ("exam_recording_id" :> 1)
        @@ ("warning_time" :> 1) @@ ("description" :> 1)

\* create_exam_warning up to the commit: the warning is added to the
\* session, and time_ended is set on the session's copy of the recording
\* when the worker counts MAX_WARNING_COUNT-1 earlier warnings.
create_exam_warning_read(w, data) ==
    LET answer == create_exam_warning_answer(data)
        r == Get(data, "exam_recording_id")
    IN
    /\ sess[w] = Idle
    /\ IF answer[1] = 201
       THEN /\ sess' = [sess EXCEPT ![w] =
                          Pending("create_exam_warning", r,
                                  IF ReachesLimit(r) /\ recs[r].time_ended = NULL
                                  THEN (r :> now) ELSE Nothing)
                            @@ [warning |-> NewExamWarning(data)]]
            /\ UNCHANGED resp
       ELSE /\ resp' = Response("create_exam_warning", answer[1], answer[2], NULL)
            /\ UNCHANGED sess
    /\ UNCHANGED <<now, pager, exams, next_exam_id, recs, next_recording_id, warns, next_warning_id>>

\* db.session.commit() of a worker and the handler's answer: the dirty
\* rows are updated and a warning the session holds is inserted.
session_commit(w) ==
    /\ sess[w].pc = "commit"
    /\ recs' = [r \in DOMAIN recs |->
                  IF r \in DOMAIN sess[w].rows
                  THEN [recs[r] EXCEPT !.time_ended = sess[w].rows[r]]
                  ELSE recs[r]]
    /\ IF "warning" \in DOMAIN sess[w]
       THEN /\ warns' = warns @@ (next_warning_id :> sess[w].warning)
            /\ next_warning_id' = next_warning_id + 1
            /\ resp' = Response(sess[w].op, 201, "created", next_warning_id)
       ELSE /\ UNCHANGED <<warns, next_warning_id>>
            /\ resp' = Response(sess[w].op, 200, "committed", sess[w].id)
    /\ sess' = [sess EXCEPT ![w] = Idle]
    /\ UNCHANGED <<now, pager, exams, next_exam_id, next_recording_id>>

\* create_exam_recording up to db.session.add: the checks are made on what
\* the worker reads, and the new row waits in its session for the commit.
create_exam_recording_read(w, token, data) ==
    LET answer == create_exam_recording_answer(token, data) IN
    /\ sess[w] = Idle
    /\ IF answer[1] = 201
       THEN /\ sess' = [sess EXCEPT ![w] =
                          [pc |-> "insert", op |-> "create_exam_recording",
                           row |-> NewExamRecording(data, now)]]
            /\ UNCHANGED resp
       ELSE /\ resp' = Response("create_exam_recording", answer[1], answer[2], NULL)
            /\ UNCHANGED sess
    /\ UNCHANGED <<now, pager, exams, next_exam_id, recs, next_recording_id, warns, next_warning_id>>

\* db.session.commit() of a create: INSERT INTO examRecordings.  The table
\* has a primary key and two foreign keys and no unique index on
\* (exam_id, user_id), so the INSERT of a registered pair is accepted.
session_commit_insert(w) ==
    /\ sess[w].pc = "insert"
    /\ recs' = recs @@ (next_recording_id :> sess[w].row)
    /\ next_recording_id' = next_recording_id + 1
    /\ resp' = Response("create_exam_recording", 201, "created", next_recording_id)
    /\ sess' = [sess EXCEPT ![w] = Idle]
    /\ UNCHANGED <<now, pager, exams, next_exam_id, warns, next_warning_id>>

NextConc ==
    \/ Tick
    \/ \E w \in Workers :
          create_exam_recording_read(w, ConcCreateToken, ConcCreatePayload)
    \/ \E w \in Workers : session_commit_insert(w)
    \/ \E w \in Workers : create_exam_warning_read(w, ConcWarningPayload)
    \/ \E w \in Workers : \E r \in DOMAIN recs : update_exam_recording_read(w, r)
    \/ \E w \in Workers : get_exam_recording_read(w)
    \/ \E w \in Workers : session_commit(w)

SpecConc == Init /\ [][NextConc]_vars

----------------------------------------------------------------------------
(* GET /examiner/exam and filter_results for main_class = Exam.  A name or *)
(* code is the number of its place in the alphabet of names; the prefix    *)
(* filters and the filters on the columns of other tables are not given.   *)

\* WHERE of the exam listing.  in_progress is compared with the strings
\* 'true' and 'false' after get_request_args made it a boolean: it never
\* filters.
ExamMatches(e, args) ==
    /\ Truthy(args.subject_id) => exams[e].subject_id = args.subject_id
    /\ Truthy(args.exam_id) => e = args.exam_id
    /\ args.period_start # NULL => exams[e].start_date >= args.period_start
    /\ args.period_end # NULL => exams[e].end_date <= args.period_end

\* ORDER BY of the exam listing.
ExamInOrder(a, b, args) ==
    IF args.order_by = "end_date"
    THEN IF args.order = "asc" THEN exams[a].end_date <= exams[b].end_date
         ELSE exams[a].start_date >= exams[b].start_date
    ELSE IF args.order_by = "exam_name"
    THEN IF args.order = "asc" THEN exams[a].exam_name <= exams[b].exam_name
         ELSE exams[a].exam_name >= exams[b].exam_name
    ELSE IF args.order_by = "subject_id"
    THEN IF args.order = "asc" THEN exams[a].subject_id <= exams[b].subject_id
         ELSE exams[a].subject_id >= exams[b].subject_id
    ELSE IF args.order = "asc" THEN exams[a].start_date <= exams[b].start_date
         ELSE exams[a].start_date >= exams[b].start_date

\* Every order the database may return the matching exams in.
OrderedExams(args) ==
    LET S == { e \in DOMAIN exams : ExamMatches(e, args) }
        n == Cardinality(S)
    IN { s \in [1..n -> S] :
           /\ \A i, j \in 1..n : i # j => s[i] # s[j]
           /\ \A i \in 1..n : i < n => ExamInOrder(s[i], s[i + 1], args) }

\* func.count(ExamRecording.exam_id) of the group of e.
er_count(e) == Cardinality({ r \in DOMAIN recs : recs[r].exam_id = e })

ExamItem(e, count) ==
    [ exam_id         |-> e,
      exam_name       |-> exams[e].exam_name,
      subject_id      |-> exams[e].subject_id,
      start_date      |-> datetime_to_str(exams[e].start_date),
      end_date        |-> datetime_to_str(exams[e].end_date),
      exam_recordings |-> count ]

\* .all() of a query without ORDER BY: the rows in any order.
AnyOrder(S) ==
    { s \in [1..Cardinality(S) -> S] :
        \A i, j \in 1..Cardinality(S) : i # j => s[i] # s[j] }

\* The examinee's branch: the exam of the login code, while it is open.
OpenExamsOfCode(login_code, t) ==
    { e \in DOMAIN exams :
        /\ exams[e].login_code = login_code
        /\ exams[e].start_date <= t
        /\ exams[e].end_date >= t }

get_exam(token, q) ==
    LET user_id == authenticate_token(token)
        args == get_request_args(q)
    IN
    /\ IF ~is_user(user_id)
       THEN resp' = Response("get_exam", 403, "access denied", NULL)
       ELSE IF is_examiner(user_id)
       THEN \E all \in OrderedExams(args) :
              LET page == filter_results(all, args) IN
              resp' = [ op |-> "get_exam", status |-> 200, message |-> "ok",
                        id |-> NULL,
                        exams |-> [i \in 1..Len(page) |->
                                     ExamItem(page[i], er_count(page[i]))],
                        next_page_exists |-> next_page_exists(all, args) ]
       ELSE \E all \in AnyOrder(OpenExamsOfCode(q.login_code, now)) :
              resp' = [ op |-> "get_exam", status |-> 200, message |-> "ok",
                        id |-> NULL,
                        exams |-> [i \in 1..Len(all) |-> ExamItem(all[i], 0)],
                        next_page_exists |-> FALSE ]
    /\ UNCHANGED <<now, pager, exams, next_exam_id, recs, next_recording_id, warns, next_warning_id, sess>>

----------------------------------------------------------------------------
(* GET /examiner/exam_warning and GET /examiner/examinee, with             *)
(* filter_results for main_class = ExamWarning and User.  The prefix       *)
(* filters on names are not given, and the examinee listing is not given   *)
(* the filters on columns of tables outside its query.                     *)

\* The rows of S in every order a query may return them.
Orderings(S) ==
    { s \in [1..Cardinality(S) -> S] :
        \A i, j \in 1..Cardinality(S) : i # j => s[i] # s[j] }

\* The joins and the WHERE of the warning listing: the warning's recording,
\* its user, who is not an examiner, and its exam.
WarningMatches(w, args) ==
    LET r == warns[w].exam_recording_id IN
    /\ r \in DOMAIN recs
    /\ recs[r].user_id \in DOMAIN users
    /\ recs[r].exam_id \in DOMAIN exams
    /\ ~users[recs[r].user_id].is_examiner
    /\ Truthy(args.user_id) => recs[r].user_id = args.user_id
    /\ args.is_examiner # NULL =>
          users[recs[r].user_id].is_examiner = (args.is_examiner = 1)
    /\ Truthy(args.exam_warning_id) => w = args.exam_warning_id
    /\ Truthy(args.exam_recording_id) => r = args.exam_recording_id
    /\ Truthy(args.subject_id) => exams[recs[r].exam_id].subject_id = args.subject_id
    /\ args.period_start # NULL => warns[w].warning_time >= args.period_start
    /\ args.period_end # NULL => warns[w].warning_time <= args.period_end

\* ORDER BY warning_time, ascending when asked, descending otherwise.
OrderedWarnings(args) ==
    LET Before(a, b) == IF args.order = "asc"
                        THEN warns[a].warning_time <= warns[b].warning_time
                        ELSE warns[a].warning_time >= warns[b].warning_time
    IN { s \in Orderings({ w \in DOMAIN warns : WarningMatches(w, args) }) :
           \A i \in 1..(Len(s) - 1) : Before(s[i], s[i + 1]) }

WarningItem(w) ==
    LET r == warns[w].exam_recording_id IN
    [ exam_warning_id   |-> w,
      exam_recording_id |-> r,
      user_id           |-> recs[r].user_id,
      exam_id           |-> recs[r].exam_id,
      time_started      |-> datetime_to_str(recs[r].time_started),
      time_ended        |-> datetime_to_str(recs[r].time_ended),
      warning_time      |-> datetime_to_str(warns[w].warning_time) ]

get_exam_warning(token, q) ==
    LET user_id == authenticate_token(token)
        args == get_request_args(q)
    IN
    /\ IF is_examiner(user_id) \/ is_self(user_id, q.user_id)
       THEN \E all \in OrderedWarnings(args) :
              LET page == filter_results(all, args) IN
              resp' = [ op |-> "get_exam_warning", status |-> 200, message |-> "ok",
                        id |-> NULL,
                        exam_warnings |-> [i \in 1..Len(page) |-> WarningItem(page[i])],
                        next_page_exists |-> next_page_exists(all, args) ]
       ELSE resp' = Response("get_exam_warning", 403, "access denied", NULL)
    /\ UNCHANGED <<now, pager, exams, next_exam_id, recs, next_recording_id, warns,
                   next_warning_id, sess>>

\* WHERE of the examinee listing.
UserMatches(u, args) ==
    /\ Truthy(args.user_id) => u = args.user_id
    /\ args.is_examiner # NULL => users[u].is_examiner = (args.is_examiner = 1)

\* ORDER BY user_id unless first_name or last_name is asked; the names are
\* not part of the model, so ordered by a name the rows come in any order.
OrderedUsers(args) ==
    LET Before(a, b) == IF args.order_by \in {"first_name", "last_name"} THEN TRUE
                        ELSE IF args.order = "asc" THEN a <= b ELSE a >= b
    IN { s \in Orderings({ u \in DOMAIN users : UserMatches(u, args) }) :
           \A i \in 1..(Len(s) - 1) : Before(s[i], s[i + 1]) }

\* u.to_dict() with func.count(ExamRecording.user_id) of the group of u.
UserItem(u) ==
    [ user_id         |-> u,
      is_examiner     |-> users[u].is_examiner,
      exam_recordings |-> Cardinality({ r \in DOMAIN recs : recs[r].user_id = u }) ]

get_examinee(token, q) ==
    LET user_id == authenticate_token(token)
        args == get_request_args(q)
    IN
    /\ IF is_examiner(user_id) \/ is_self(user_id, q.user_id)
       THEN \E all \in OrderedUsers(args) :
              LET page == filter_results(all, args) IN
              resp' = [ op |-> "get_examinee", status |-> 200, message |-> "ok",
                        id |-> NULL,
                        users |-> [i \in 1..Len(page) |-> UserItem(page[i])],
                        next_page_exists |-> next_page_exists(all, args) ]
       ELSE resp' = Response("get_examinee", 403, "access denied", NULL)
    /\ UNCHANGED <<now, pager, exams, next_exam_id, recs, next_recording_id, warns,
                   next_warning_id, sess>>

----------------------------------------------------------------------------
(* The listings over a filled store.  SpecList starts from the tables as   *)
(* earlier requests left them: two exams an examiner created, up to three  *)
(* recordings of distinct (exam, user) pairs started inside their exam's   *)
(* window, some of them ended by hand.  SpecListWarn starts from the same  *)
(* tables with warning rows in examWarnings.                               *)

\* An exam row with the columns the exam listing reads.
ListExamRow(start_date, end_date, subject_id, exam_name, login_code) ==
    [ start_date |-> start_date, end_date |-> end_date,
      duration   |-> [hour |-> 0, minute |-> 1, second |-> 0],
      subject_id |-> subject_id, exam_name |-> exam_name,
      login_code |-> login_code ]

ListExams ==
    { (1 :> ListExamRow(0, 4 * TickLen, 1, 1, 1))
        @@ (2 :> ListExamRow(TickLen, 3 * TickLen, subject_id, exam_name, 2)) :
        subject_id \in {1, 2}, exam_name \in {1, 2} }

ListRecordingRow(exam_id, user_id, time_started, time_ended) ==
    [ exam_id |-> exam_id, user_id |-> user_id, time_started |-> time_started,
      time_ended |-> time_ended, video_link |-> NULL ]

\* The recordings in the order they were created.
ListRecordings ==
    LET A == { ListRecordingRow(1, ExamineeId, TickLen, te) : te \in {NULL, 2 * TickLen} }
        B == { ListRecordingRow(2, ExamineeId, 2 * TickLen, te) : te \in {NULL, 3 * TickLen} }
        C == { ListRecordingRow(1, ExaminerId, 2 * TickLen, te) : te \in {NULL, 3 * TickLen} }
    IN {Nothing}
       \cup { (1 :> a) : a \in A }
       \cup { (1 :> a) @@ (2 :> b) : a \in A, b \in B }
       \cup { (1 :> b) @@ (2 :> c) : b \in B, c \in C }
       \cup { (1 :> a) @@ (2 :> b) @@ (3 :> c) : a \in A, b \in B, c \in C }

\* Warning rows: counts[r] of them for recording r.
MaxWarningsSeeded == 2

ListWarnings(n) ==
    { [w \in 1..(c[1] + c[2] + c[3]) |->
         [ exam_recording_id |-> IF w <= c[1] THEN 1
                                 ELSE IF w <= c[1] + c[2] THEN 2 ELSE 3,
           warning_time |-> 2 * TickLen, description |-> 1 ]] :
        c \in { d \in [1..3 -> 0..MaxWarningsSeeded] : \A r \in 1..3 : r > n => d[r] = 0 } }

InitList ==
    /\ now = 3 * TickLen
    /\ exams \in ListExams
    /\ next_exam_id = Cardinality(DOMAIN exams) + 1
    /\ recs \in ListRecordings
    /\ next_recording_id = Cardinality(DOMAIN recs) + 1
    /\ warns = Nothing
    /\ next_warning_id = 1
    /\ resp = Response("none", 0, "", NULL)
    /\ sess = [w \in Workers |-> Idle]
    /\ pager = NoWalk

\* Three recordings in progress, with every number of warnings each.
InitListWarn ==
    /\ now = 3 * TickLen
    /\ exams \in { e \in ListExams : e[2].subject_id = 2 /\ e[2].exam_name = 2 }
    /\ next_exam_id = Cardinality(DOMAIN exams) + 1
    /\ recs \in { t \in ListRecordings :
                    /\ Cardinality(DOMAIN t) = 3
                    /\ \A r \in DOMAIN t : t[r].time_ended = NULL }
    /\ next_recording_id = Cardinality(DOMAIN recs) + 1
    /\ warns \in ListWarnings(Cardinality(DOMAIN recs))
    /\ next_warning_id = Cardinality(DOMAIN warns) + 1
    /\ resp = Response("none", 0, "", NULL)
    /\ sess = [w \in Workers |-> Idle]
    /\ pager = NoWalk

\* Query strings of the examiner's recording listing: the page, the order,
\* and one filter at a time.
PageQueries ==
    { [NoArgs EXCEPT !.page_number = pn, !.results_length = rl] :
        pn \in {NULL, 0, 1, 2, 3}, rl \in {NULL, 0, 1, 2, 101} }

OrderQueries(columns) ==
    { [NoArgs EXCEPT !.order_by = ob, !.order = o] :
        ob \in columns \cup {"other"}, o \in {"asc", "desc", "other"} }

RecordingFilterQueries ==
    { [NoArgs EXCEPT !.user_id = v] : v \in {0, ExamineeId} }
    \cup { [NoArgs EXCEPT !.exam_id = v] : v \in {0, 1, 2} }
    \cup { [NoArgs EXCEPT !.subject_id = v] : v \in {0, 2} }
    \cup { [NoArgs EXCEPT !.exam_recording_id = v] : v \in {0, 2} }
    \cup { [NoArgs EXCEPT !.is_examiner = v] : v \in {0, 1} }
    \cup { [NoArgs EXCEPT !.in_progress = v] : v \in {0, 1} }
    \cup { [NoArgs EXCEPT !.period_start = v] : v \in {2 * TickLen} }
    \cup { [NoArgs EXCEPT !.period_end = v] : v \in {2 * TickLen} }
    \cup { [NoArgs EXCEPT !.exam_id = 1, !.in_progress = 1] }

WarningFilterQueries ==
    { [NoArgs EXCEPT !.warning_count = v] : v \in 0..MaxWarningsSeeded }
    \cup { [NoArgs EXCEPT !.min_warnings = v] : v \in 0..MaxWarningsSeeded }
    \cup { [NoArgs EXCEPT !.max_warnings = v] : v \in 0..MaxWarningsSeeded }

ListRecordingQueries ==
    PageQueries \cup OrderQueries({"default", "time_started", "time_ended"})
        \cup RecordingFilterQueries \cup WarningFilterQueries

\* Query strings of the exam listing, with the login code of the examinee's
\* branch.
ListExamQueries ==
    { a @@ [login_code |-> NULL] :
        a \in PageQueries
              \cup OrderQueries({"start_date", "end_date", "exam_name", "subject_id"})
              \cup { [NoArgs EXCEPT !.exam_id = v] : v \in {0, 2} }
              \cup { [NoArgs EXCEPT !.subject_id = v] : v \in {0, 2} }
              \cup { [NoArgs EXCEPT !.in_progress = v] : v \in {0, 1} }
              \cup { [NoArgs EXCEPT !.warning_count = 1],
                     [NoArgs EXCEPT !.period_start = TickLen],
                     [NoArgs EXCEPT !.period_end = 3 * TickLen] } }

ListExamRequests ==
    { [token |-> ExaminerId, args |-> a] : a \in ListExamQueries }
    \cup { [token |-> ExamineeId, args |-> NoArgs @@ [login_code |-> c]] : c \in {NULL, 2} }
    \cup { [token |-> InvalidTokenUser, args |-> NoArgs @@ [login_code |-> NULL]] }

\* The requests of a caller who is no examiner: for the caller's own rows,
\* for every user's, for another user's, and with a token that does not
\* decode.
ConfinedRequests ==
    { [token |-> ExamineeId, args |-> [NoArgs EXCEPT !.user_id = u]] :
        u \in {NULL, ExaminerId, ExamineeId} }
    \cup { [token |-> InvalidTokenUser, args |-> [NoArgs EXCEPT !.user_id = u]] :
             u \in {NULL, ExamineeId} }

ListRecordingRequests ==
    { [token |-> ExaminerId, args |-> a] : a \in ListRecordingQueries }
    \cup ConfinedRequests

ListWarningRequests ==
    { [token |-> ExaminerId, args |-> a] :
        a \in { [NoArgs EXCEPT !.order = o, !.results_length = rl] :
                  o \in {"asc", "desc"}, rl \in {NULL, 1} } }
    \cup ConfinedRequests

ListExamineeRequests ==
    { [token |-> ExaminerId, args |-> a] :
        a \in { [NoArgs EXCEPT !.order = o, !.is_examiner = x] :
                  o \in {"asc", "desc"}, x \in {NULL, 1} } }
    \cup ConfinedRequests

\* A listing request arrives: its token and query string are held until the
\* handler runs.
receive_request(op, rq) ==
    /\ resp.op # "request"
    /\ resp' = [op |-> "request", handler |-> op, token |-> rq.token, args |-> rq.args]
    /\ UNCHANGED <<now, pager, exams, next_exam_id, recs, next_recording_id, warns, next_warning_id, sess>>

serve_get_exam_recording ==
    /\ resp.op = "request"
    /\ resp.handler = "get_exam_recording"
    /\ get_exam_recording(resp.token, resp.args)

serve_get_exam ==
    /\ resp.op = "request"
    /\ resp.handler = "get_exam"
    /\ get_exam(resp.token, resp.args)

serve_get_exam_warning ==
    /\ resp.op = "request"
    /\ resp.handler = "get_exam_warning"
    /\ get_exam_warning(resp.token, resp.args)

serve_get_examinee ==
    /\ resp.op = "request"
    /\ resp.handler = "get_examinee"
    /\ get_examinee(resp.token, resp.args)

NextList ==
    \/ Tick
    \/ \E rq \in ListRecordingRequests : receive_request("get_exam_recording", rq)
    \/ \E rq \in ListExamRequests : receive_request("get_exam", rq)
    \/ \E rq \in ListWarningRequests : receive_request("get_exam_warning", rq)
    \/ \E rq \in ListExamineeRequests : receive_request("get_examinee", rq)
    \/ serve_get_exam_recording
    \/ serve_get_exam
    \/ serve_get_exam_warning
    \/ serve_get_examinee

SpecList == InitList /\ [][NextList]_vars

SpecListWarn == InitListWarn /\ [][NextList]_vars

----------------------------------------------------------------------------
(* A client that reads the recording listing page by page, as the loop of  *)
(* generate_exam_warning_data does: the same query each time, page_number  *)
(* 1, 2, ...  It goes on while the answer says next_page_exists.  No other *)
(* request is served meanwhile; the clock runs.                            *)

\* The queries the client pages through: the filter in_progress, the sort
\* column and the page size.
PagingQueries ==
    { [NoArgs EXCEPT !.in_progress = ip, !.order_by = ob, !.order = o,
                     !.results_length = rl] :
        ip \in {NULL, 1}, ob \in {"default", "time_ended"}, o \in {"asc", "desc"},
        rl \in {1, 2} }

\* requests.get(base_url+'/examinee/exam_recording', params=params): the
\* first page of a query, or the next page of the query under way.  first
\* keeps the recordings that match the query when the first page is asked.
request_page ==
    /\ \/ /\ pager.pc = "idle"
          /\ \E a \in PagingQueries :
                pager' = [ pc |-> "waiting", args |-> a, page_number |-> 1,
                           first |-> { r \in DOMAIN recs :
                                         RecordingMatches(r, get_request_args(a), now) },
                           seen |-> <<>> ]
       \/ /\ pager.pc = "next"
          /\ pager' = [pager EXCEPT !.pc = "waiting"]
    /\ resp' = [ op |-> "request", handler |-> "get_exam_recording",
                 token |-> ExaminerId,
                 args |-> [pager'.args EXCEPT !.page_number = pager'.page_number] ]
    /\ UNCHANGED <<now, exams, next_exam_id, recs, next_recording_id, warns,
                   next_warning_id, sess>>

\* The client takes the rows of the answer and goes on to the next page
\* when there is one.
read_page ==
    /\ pager.pc = "waiting"
    /\ resp.op = "get_exam_recording"
    /\ pager' = [pager EXCEPT
                   !.pc = IF resp.next_page_exists THEN "next" ELSE "done",
                   !.page_number = @ + 1,
                   !.seen = @ \o [i \in 1..Len(resp.exam_recordings) |->
                                   resp.exam_recordings[i].exam_recording_id] ]
    /\ UNCHANGED <<now, exams, next_exam_id, recs, next_recording_id, warns,
                   next_warning_id, resp, sess>>

NextPaging ==
    \/ Tick
    \/ request_page
    \/ serve_get_exam_recording
    \/ read_page

SpecPaging == InitList /\ [][NextPaging]_vars

----------------------------------------------------------------------------
(* POST /examiner/exam/create, POST /examiner/exam/update and            *)
(* DELETE /examiner/exam/delete/<exam_id>                                 *)

MaxExams == 2

RequiredExam == {"exam_name", "subject_id", "start_date", "end_date", "duration"}

\* generate_exam_code until the code is not in the table: any unused code.
UnusedLoginCodes ==
    { c \in 1..MaxExams : \A e \in DOMAIN exams : exams[e].login_code # c }

\* Exam(**data): the dates are parsed, the login code is the generated one.
NewExam(data, login_code) ==
    [ exam_name  |-> data["exam_name"],
      subject_id |-> data["subject_id"],
      login_code |-> login_code,
      start_date |-> parse_datetime(data["start_date"]),
      end_date   |-> parse_datetime(data["end_date"]),
      duration   |-> data["duration"] ]

\* The answer of create_exam: <<status, message>>; 201 is the only one that
\* commits.
create_exam_answer(token, data) ==
    IF ~is_examiner(authenticate_token(token)) THEN <<403, "access denied">>
    \* a duration given is a time string, never falsy
    ELSE IF \/ pre_init_check(RequiredExam \ {"duration"}, data) # {}
            \/ ~Has(data, "duration")
         THEN <<400, "missing fields">>
    \* if exam.start_date > exam.end_date: raise Exception
    ELSE IF parse_datetime(data["start_date"]) > parse_datetime(data["end_date"])
         THEN <<500, "exception">>
    ELSE <<201, "created">>

create_exam(token, data) ==
    LET answer == create_exam_answer(token, data)
        exam_id == next_exam_id
    IN
    /\ next_exam_id <= MaxExams
    /\ IF answer[1] = 201
       THEN \E login_code \in UnusedLoginCodes :
              /\ exams' = exams @@ (exam_id :> NewExam(data, login_code))
              /\ next_exam_id' = next_exam_id + 1
              /\ resp' = [ op |-> "create_exam", status |-> 201,
                           message |-> answer[2], id |-> exam_id,
                           start_date |-> datetime_to_str(exams'[exam_id].start_date),
                           end_date |-> datetime_to_str(exams'[exam_id].end_date) ]
       ELSE /\ UNCHANGED <<exams, next_exam_id>>
            /\ resp' = Response("create_exam", answer[1], answer[2], NULL)
    /\ UNCHANGED <<now, pager, recs, next_recording_id, warns, next_warning_id, sess>>

\* The exam object after the assignments of update_exam: a key that is
\* absent or falsy leaves its column alone.
UpdatedExam(exam, data) ==
    [ exam EXCEPT
        !.exam_name  = IF Falsy(data, "exam_name") THEN @ ELSE data["exam_name"],
        !.subject_id = IF Falsy(data, "subject_id") THEN @ ELSE data["subject_id"],
        !.start_date = IF Falsy(data, "start_date") THEN @
                       ELSE parse_datetime(data["start_date"]),
        !.end_date   = IF Falsy(data, "end_date") THEN @
                       ELSE parse_datetime(data["end_date"]),
        !.duration   = IF ~Has(data, "duration") THEN @ ELSE data["duration"] ]

\* The answer of update_exam: <<status, message>>.
update_exam_answer(token, data) ==
    IF ~is_examiner(authenticate_token(token)) THEN <<403, "access denied">>
    ELSE IF Falsy(data, "exam_id") THEN <<400, "no exam_id">>
    ELSE IF data["exam_id"] \notin DOMAIN exams THEN <<404, "not found">>
    ELSE IF ~(exams[data["exam_id"]].start_date > now) THEN <<400, "exception">>
    ELSE IF ~Falsy(data, "start_date") /\ parse_datetime(data["start_date"]) < now
         THEN <<400, "exception">>
    ELSE IF ~Falsy(data, "end_date") /\ parse_datetime(data["end_date"]) < now
         THEN <<400, "exception">>
    ELSE IF UpdatedExam(exams[data["exam_id"]], data).start_date
              > UpdatedExam(exams[data["exam_id"]], data).end_date
         THEN <<400, "exception">>
    ELSE <<200, "ok">>

\* The commit of update_exam is commented out: the session is dropped at
\* the end of the request and the table keeps the old row, while the
\* response shows the changed object.
update_exam(token, data) ==
    LET answer == update_exam_answer(token, data) IN
    /\ resp' = IF answer[1] = 200
               THEN [ op |-> "update_exam", status |-> 200, message |-> answer[2],
                      id |-> data["exam_id"],
                      start_date |-> datetime_to_str(
                          UpdatedExam(exams[data["exam_id"]], data).start_date),
                      end_date |-> datetime_to_str(
                          UpdatedExam(exams[data["exam_id"]], data).end_date) ]
               ELSE Response("update_exam", answer[1], answer[2], NULL)
    /\ UNCHANGED <<now, pager, exams, next_exam_id, recs, next_recording_id, warns, next_warning_id, sess>>

\* Mutant: the delete does not look at start_date.
delete_exam_answer_any_time(token, exam_id) ==
    IF ~is_examiner(authenticate_token(token)) THEN <<403, "access denied">>
    ELSE IF exam_id \notin DOMAIN exams THEN <<404, "not found">>
    ELSE <<200, "ok">>

\* The answer of delete_exam: <<status, message>>; 200 is the only one that
\* commits.
delete_exam_answer(token, exam_id) ==
    IF ~is_examiner(authenticate_token(token)) THEN <<403, "access denied">>
    ELSE IF exam_id \notin DOMAIN exams THEN <<404, "not found">>
    ELSE IF exams[exam_id].start_date > now THEN <<200, "ok">>
    ELSE <<405, "already started">>

\* db.session.delete(exam): the row goes, and with it, by the cascades of
\* Exam.exam_recordings and ExamRecording.warnings, its recordings and their
\* warnings.
delete_exam(token, exam_id) ==
    LET answer == delete_exam_answer(token, exam_id)
        kept == { r \in DOMAIN recs : recs[r].exam_id # exam_id }
    IN
    /\ IF answer[1] = 200
       THEN /\ exams' = [e \in DOMAIN exams \ {exam_id} |-> exams[e]]
            /\ recs' = [r \in kept |-> recs[r]]
            /\ warns' = [w \in { v \in DOMAIN warns : warns[v].exam_recording_id \in kept }
                           |-> warns[w]]
       ELSE UNCHANGED <<exams, recs, warns>>
    /\ resp' = Response("delete_exam", answer[1], answer[2],
                        IF answer[1] = 200 THEN exam_id ELSE NULL)
    /\ UNCHANGED <<now, pager, next_exam_id, next_recording_id, next_warning_id, sess>>

\* Dates of the exam bodies.
ExamDates == {TickLen, 3 * TickLen}

\* The duration of the exam bodies.
ExamDuration == [hour |-> 0, minute |-> 1, second |-> 0]

\* JSON bodies of POST /examiner/exam/create, with the caller's token.
CreateExamRequests ==
    { [token |-> ExaminerId,
       data |-> ("exam_name" :> 1) @@ ("subject_id" :> 1) @@ ("start_date" :> s)
                  @@ e @@ ("duration" :> ExamDuration)] :
        s \in ExamDates, e \in Opt("end_date", ExamDates) }
    \cup { [token |-> ExamineeId,
            data |-> ("exam_name" :> 1) @@ ("subject_id" :> 1)
                       @@ ("start_date" :> TickLen) @@ ("end_date" :> 3 * TickLen)
                       @@ ("duration" :> ExamDuration)] }

\* JSON bodies of POST /examiner/exam/update: the examiner with every
\* choice of keys, an examinee with one body.
UpdateExamRequests ==
    { [token |-> ExaminerId, data |-> i @@ s @@ e] :
        i \in Opt("exam_id", 1..MaxExams),
        s \in Opt("start_date", ExamDates),
        e \in Opt("end_date", {TickLen}) }
    \cup { [token |-> ExamineeId,
            data |-> ("exam_id" :> 1) @@ ("start_date" :> 3 * TickLen)] }

InitExam ==
    /\ now = 0
    /\ exams = Nothing
    /\ next_exam_id = 1
    /\ recs = Nothing
    /\ next_recording_id = 1
    /\ warns = Nothing
    /\ next_warning_id = 1
    /\ resp = Response("none", 0, "", NULL)
    /\ sess = [w \in Workers |-> Idle]
    /\ pager = NoWalk

NextExam ==
    \/ Tick
    \/ \E rq \in CreateExamRequests : create_exam(rq.token, rq.data)
    \/ \E rq \in UpdateExamRequests : update_exam(rq.token, rq.data)
    \/ \E t \in {ExaminerId, ExamineeId}, e \in 1..MaxExams : delete_exam(t, e)
    \/ \E e \in 1..MaxExams :
          create_exam_recording(ExamineeId, ("exam_id" :> e) @@ ("user_id" :> ExamineeId))

SpecExam == InitExam /\ [][NextExam]_vars

----------------------------------------------------------------------------
(* Concurrent exam creations: each worker runs create_exam up to            *)
(* db.session.add, and its commit is a later step.                          *)

\* The workers whose new exam waits for its commit.
PendingExams == { w \in Workers : sess[w].pc = "insert_exam" }

\* create_exam up to db.session.add: the generated code is checked against
\* the exams the worker reads.
create_exam_read(w, token, data) ==
    LET answer == create_exam_answer(token, data) IN
    /\ sess[w] = Idle
    /\ next_exam_id + Cardinality(PendingExams) <= MaxExams
    /\ IF answer[1] = 201
       THEN /\ \E login_code \in UnusedLoginCodes :
                 sess' = [sess EXCEPT ![w] =
                            [pc |-> "insert_exam", op |-> "create_exam",
                             row |-> NewExam(data, login_code)]]
            /\ UNCHANGED resp
       ELSE /\ resp' = Response("create_exam", answer[1], answer[2], NULL)
            /\ UNCHANGED sess
    /\ UNCHANGED <<now, pager, exams, next_exam_id, recs, next_recording_id, warns, next_warning_id>>

\* db.session.commit() of create_exam: INSERT INTO exams.  login_code is a
\* column without a unique index, so the INSERT is accepted whatever codes
\* the table holds.
session_commit_exam(w) ==
    /\ sess[w].pc = "insert_exam"
    /\ exams' = exams @@ (next_exam_id :> sess[w].row)
    /\ next_exam_id' = next_exam_id + 1
    /\ resp' = [ op |-> "create_exam", status |-> 201, message |-> "created",
                 id |-> next_exam_id,
                 start_date |-> datetime_to_str(sess[w].row.start_date),
                 end_date |-> datetime_to_str(sess[w].row.end_date) ]
    /\ sess' = [sess EXCEPT ![w] = Idle]
    /\ UNCHANGED <<now, pager, recs, next_recording_id, warns, next_warning_id>>

NextExamConc ==
    \/ Tick
    \/ \E w \in Workers : \E rq \in CreateExamRequests :
          create_exam_read(w, rq.token, rq.data)
    \/ \E w \in Workers : session_commit_exam(w)

SpecExamConc == InitExam /\ [][NextExamConc]_vars

----------------------------------------------------------------------------
(* create_exam with the loop that looks for a login code taken step by     *)
(* step: generate a code, look it up, go round again when an exam has it.  *)

\* The strings generate_exam_code can return: 12 characters of a charset of
\* 63 in the source, MaxExams codes here.
ExamCodes == 1..MaxExams

\* create_exam down to the loop: the role and the required fields.
create_exam_enter(w, token, data) ==
    LET answer == create_exam_answer(token, data) IN
    /\ sess[w] = Idle
    /\ IF answer[1] \in {403, 400}
       THEN /\ resp' = Response("create_exam", answer[1], answer[2], NULL)
            /\ UNCHANGED sess
       ELSE /\ sess' = [sess EXCEPT ![w] =
                          [pc |-> "generate", op |-> "create_exam", token |-> token,
                           data |-> data, potential_login_code |-> NULL]]
            /\ UNCHANGED resp
    /\ UNCHANGED <<now, pager, exams, next_exam_id, recs, next_recording_id, warns, next_warning_id>>

\* potential_login_code = generate_exam_code()
generate_exam_code(w, code) ==
    /\ sess[w].pc = "generate"
    /\ sess' = [sess EXCEPT ![w].pc = "lookup", ![w].potential_login_code = code]
    /\ UNCHANGED <<now, pager, exams, next_exam_id, recs, next_recording_id, warns,
                   next_warning_id, resp>>

\* Exam.query.filter_by(login_code=potential_login_code).first()
code_exists(code) == \E e \in DOMAIN exams : exams[e].login_code = code

\* if not code_exists: break, and the rest of the handler; otherwise the
\* loop goes round.
lookup_login_code(w) ==
    LET code == sess[w].potential_login_code
        data == sess[w].data
        answer == create_exam_answer(sess[w].token, data)
    IN
    /\ sess[w].pc = "lookup"
    /\ IF code_exists(code)
       THEN /\ sess' = [sess EXCEPT ![w].pc = "generate"]
            /\ UNCHANGED <<exams, next_exam_id, resp>>
       ELSE /\ sess' = [sess EXCEPT ![w] = Idle]
            /\ IF answer[1] = 201
               THEN /\ exams' = exams @@ (next_exam_id :> NewExam(data, code))
                    /\ next_exam_id' = next_exam_id + 1
                    /\ resp' = [ op |-> "create_exam", status |-> 201,
                                 message |-> answer[2], id |-> next_exam_id,
                                 start_date |-> datetime_to_str(exams'[next_exam_id].start_date),
                                 end_date |-> datetime_to_str(exams'[next_exam_id].end_date) ]
               ELSE /\ UNCHANGED <<exams, next_exam_id>>
                    /\ resp' = Response("create_exam", answer[1], answer[2], NULL)
    /\ UNCHANGED <<now, pager, recs, next_recording_id, warns, next_warning_id>>

NextCode ==
    \/ \E w \in Workers : \E rq \in CreateExamRequests :
          create_exam_enter(w, rq.token, rq.data)
    \/ \E w \in Workers : \E code \in ExamCodes : generate_exam_code(w, code)
    \/ \E w \in Workers : lookup_login_code(w)

SpecCode == InitExam /\ [][NextCode]_vars

\* A handler that has started goes on; random.choice returns every string
\* with positive probability, so a code that no exam has is generated
\* sooner or later while there is one.
SpecCodeFair ==
    /\ SpecCode
    /\ \A w \in Workers :
          /\ WF_vars(\E code \in ExamCodes : generate_exam_code(w, code))
          /\ WF_vars(lookup_login_code(w))
          /\ SF_vars(\E code \in UnusedLoginCodes : generate_exam_code(w, code))

----------------------------------------------------------------------------
(* The examiner's other mutations: DELETE /examiner/exam_recording/<id>,   *)
(* POST /examiner/exam_warning/update and                                  *)
(* DELETE /examiner/exam_warning/delete/<id>; and SpecMut, every mutating  *)
(* handler over one exam that an examiner created.                         *)

MaxRecordings == 2

\* db.session.delete(exam_recording): the row goes, and by the cascade of
\* ExamRecording.warnings its warnings.
\* Mutant: the recording is deleted and its warnings are left.
delete_exam_recording_keeps_warnings(token, exam_recording_id) ==
    LET status == IF ~is_examiner(authenticate_token(token)) THEN 403
                  ELSE IF exam_recording_id \notin DOMAIN recs THEN 404
                  ELSE 200
    IN
    /\ IF status = 200
       THEN /\ recs' = [r \in DOMAIN recs \ {exam_recording_id} |-> recs[r]]
            /\ warns' = warns
       ELSE UNCHANGED <<recs, warns>>
    /\ resp' = Response("delete_exam_recording", status,
                        IF status = 200 THEN "ok" ELSE "refused",
                        IF status = 200 THEN exam_recording_id ELSE NULL)
    /\ UNCHANGED <<now, pager, exams, next_exam_id, next_recording_id, next_warning_id, sess>>

delete_exam_recording(token, exam_recording_id) ==
    LET status == IF ~is_examiner(authenticate_token(token)) THEN 403
                  ELSE IF exam_recording_id \notin DOMAIN recs THEN 404
                  ELSE 200
    IN
    /\ IF status = 200
       THEN /\ recs' = [r \in DOMAIN recs \ {exam_recording_id} |-> recs[r]]
            /\ warns' = [w \in { v \in DOMAIN warns :
                                   warns[v].exam_recording_id # exam_recording_id }
                           |-> warns[w]]
       ELSE UNCHANGED <<recs, warns>>
    /\ resp' = Response("delete_exam_recording", status,
                        IF status = 200 THEN "ok" ELSE "refused",
                        IF status = 200 THEN exam_recording_id ELSE NULL)
    /\ UNCHANGED <<now, pager, exams, next_exam_id, next_recording_id, next_warning_id, sess>>

update_exam_warning(token, data) ==
    LET status == IF ~is_examiner(authenticate_token(token)) THEN 403
                  ELSE IF Falsy(data, "exam_warning_id") THEN 400
                  ELSE IF data["exam_warning_id"] \notin DOMAIN warns THEN 404
                  ELSE 200
    IN
    /\ IF status = 200
       THEN warns' = [warns EXCEPT ![data["exam_warning_id"]] =
                        [@ EXCEPT
                           !.description = IF Falsy(data, "description") THEN @
                                           ELSE data["description"],
                           !.warning_time = IF Falsy(data, "warning_time") THEN @
                                            ELSE parse_datetime(data["warning_time"])]]
       ELSE UNCHANGED warns
    /\ resp' = Response("update_exam_warning", status,
                        IF status = 200 THEN "ok" ELSE "refused",
                        IF status = 200 THEN data["exam_warning_id"] ELSE NULL)
    /\ UNCHANGED <<now, pager, exams, next_exam_id, recs, next_recording_id, next_warning_id, sess>>

delete_exam_warning(token, exam_warning_id) ==
    LET status == IF ~is_examiner(authenticate_token(token)) THEN 403
                  ELSE IF exam_warning_id \notin DOMAIN warns THEN 404
                  ELSE 200
    IN
    /\ IF status = 200
       THEN warns' = [w \in DOMAIN warns \ {exam_warning_id} |-> warns[w]]
       ELSE UNCHANGED warns
    /\ resp' = Response("delete_exam_warning", status,
                        IF status = 200 THEN "ok" ELSE "refused",
                        IF status = 200 THEN exam_warning_id ELSE NULL)
    /\ UNCHANGED <<now, pager, exams, next_exam_id, recs, next_recording_id, next_warning_id, sess>>

\* Who calls a mutation: the examiner, an examinee, a token that does not
\* decode.
MutationTokens == {ExaminerId, ExamineeId, InvalidTokenUser}

\* The body of a create or an update of an exam.
MutExamBody ==
    ("exam_name" :> 1) @@ ("subject_id" :> 1) @@ ("start_date" :> TickLen)
        @@ ("end_date" :> 3 * TickLen) @@ ("duration" :> ExamDuration)

\* The bodies of a warning create: those of CreateWarningPayloads and one
\* whose token does not decode.
MutWarningPayloads ==
    CreateWarningPayloads
    \cup { ("token" :> InvalidTokenUser) @@ ("exam_recording_id" :> 1)
             @@ ("warning_time" :> 1) @@ ("description" :> 1) }

InitMut ==
    /\ now = 0
    /\ exams = (1 :> NewExam(MutExamBody, 1))
    /\ next_exam_id = 2
    /\ recs = Nothing
    /\ next_recording_id = 1
    /\ warns = Nothing
    /\ next_warning_id = 1
    /\ resp = Response("none", 0, "", NULL)
    /\ sess = [w \in Workers |-> Idle]
    /\ pager = NoWalk

NextMut ==
    \/ Tick
    \/ \E t \in MutationTokens : create_exam(t, MutExamBody)
    \/ \E t \in MutationTokens :
          update_exam(t, ("exam_id" :> 1) @@ MutExamBody)
    \/ \E t \in MutationTokens, e \in 1..MaxExams : delete_exam(t, e)
    \/ \E u \in DOMAIN users, e \in 1..MaxExams :
          /\ next_recording_id <= MaxRecordings
          /\ create_exam_recording(u, ("exam_id" :> e) @@ ("user_id" :> u))
    \/ \E t \in MutationTokens, r \in 1..MaxRecordings : delete_exam_recording(t, r)
    \/ \E data \in MutWarningPayloads : create_exam_warning(data)
    \/ \E t \in MutationTokens :
          update_exam_warning(t, ("exam_warning_id" :> 1) @@ ("description" :> 2))
    \/ \E t \in MutationTokens : delete_exam_warning(t, 1)

SpecMut == InitMut /\ [][NextMut]_vars

\* The mutations that bear on the references between the tables, over a
\* store that holds recordings with warnings: the deletion of a recording
\* and of an exam, and the creation of a recording and of a warning, for
\* rows that exist and rows that do not.
MaxRecordingId == 4

WarningForNoRecording ==
    ("token" :> ExaminerId) @@ ("exam_recording_id" :> MaxRecordingId + 1)
        @@ ("warning_time" :> 1) @@ ("description" :> 1)

NextRef ==
    \/ Tick
    \/ \E t \in MutationTokens, r \in 1..MaxRecordingId : delete_exam_recording(t, r)
    \/ \E e \in DOMAIN exams : delete_exam(ExaminerId, e)
    \/ \E u \in DOMAIN users, e \in 1..3 :
          /\ next_recording_id <= MaxRecordingId
          /\ create_exam_recording(u, ("exam_id" :> e) @@ ("user_id" :> u))
    \/ \E data \in MutWarningPayloads \cup {WarningForNoRecording} :
          create_exam_warning(data)

SpecRef == InitListWarn /\ [][NextRef]_vars

\* The concurrent requests together with deletions of warnings: DELETE
\* /examiner/exam_warning/delete/<id> reads the row and commits its removal.
NextWarnConc ==
    \/ NextConc
    \/ \E id \in 1..MAX_WARNING_COUNT : delete_exam_warning(ExaminerId, id)

SpecWarnConc == Init /\ [][NextWarnConc]_vars

----------------------------------------------------------------------------
(* Properties of the requests served one at a time (Spec) *)

\* What the claims read off a request, stated apart from the handlers.
RegisteredCaller(token) == token \in DOMAIN users

MayUpdate(c) ==
    \/ c.token \in DOMAIN users /\ users[c.token].role_id = 1
    \/ c.token \in DOMAIN users /\ c.token = c.user_id

NamesPair(data) ==
    /\ Has(data, "exam_id") /\ data["exam_id"] > 0
    /\ Has(data, "user_id") /\ data["user_id"] > 0

RowsOfPair(table, data) ==
    { r \in DOMAIN table :
        /\ table[r].exam_id = data["exam_id"]
        /\ table[r].user_id = data["user_id"] }

ValidExaminerCredentials(data) ==
    /\ Has(data, "password")
    /\ data["user_id"] \in DOMAIN users
    /\ users[data["user_id"]].password = data["password"]
    /\ users[data["user_id"]].is_examiner

\* C1: served one at a time, manual end, video-link update, the recording
\* listing and warning creation never change or clear a time_ended that is
\* already set.
C1_WriteOnceEndTime ==
    [][\A r \in DOMAIN recs :
          recs[r].time_ended # NULL =>
              /\ r \in DOMAIN recs'
              /\ recs'[r].time_ended = recs[r].time_ended]_vars

\* A manual end was refused on a recording that ended earlier, and a listing
\* of an ended recording was served.
C1_Witness ==
    \E r \in DOMAIN recs :
        /\ recs[r].time_ended # NULL
        /\ recs[r].time_started <= recs[r].time_ended
        /\ recs[r].time_ended < now
        /\ resp.op = "update_exam_recording"
        /\ resp.message = "has already ended"
        /\ resp.id = r

\* C6: a manual end by a caller who may update answers 400 "has already
\* ended" and changes nothing when time_ended is set; when it is null it
\* sets time_ended = now and changes no other field and no other row.
C6_ManualEnd ==
    [][resp'.op = "update_exam_recording" =>
       \A rq \in UpdateRecordingRequests :
          LET d == rq.d IN
          ( /\ d.action = "end"
            /\ MayUpdate(rq)
            /\ d.exam_recording_id \in DOMAIN recs
            /\ update_exam_recording(rq.token, rq.user_id, d) )
          => IF recs[d.exam_recording_id].time_ended # NULL
             THEN /\ recs' = recs
                  /\ resp'.status = 400
                  /\ resp'.message = "has already ended"
             ELSE /\ recs' = [recs EXCEPT ![d.exam_recording_id].time_ended = now]
                  /\ resp'.status = 200]_vars

\* A manual end has just set time_ended on a recording that has a video link.
C6_Witness ==
    /\ resp.op = "update_exam_recording"
    /\ resp.message = "ended"
    /\ resp.id \in DOMAIN recs
    /\ recs[resp.id].time_ended = now
    /\ recs[resp.id].video_link # NULL

\* C26: an update_link with a video link, by a caller who may update, for
\* a stored recording is answered 200 whether the recording is in progress
\* or ended, sets video_link, and changes no other field, no other row and
\* no other table.
C26_VideoLinkUpdate ==
    [][resp'.op = "update_exam_recording" =>
       \A rq \in UpdateRecordingRequests :
          LET d == rq.d IN
          ( /\ d.action = "update_link"
            /\ d.video_link \notin {NULL, 0}
            /\ MayUpdate(rq)
            /\ d.exam_recording_id \in DOMAIN recs
            /\ update_exam_recording(rq.token, rq.user_id, d) )
          => /\ resp'.status = 200
             /\ recs' = [recs EXCEPT ![d.exam_recording_id].video_link = d.video_link]
             /\ exams' = exams
             /\ warns' = warns]_vars

\* C26: the last request set the video link of a recording that had ended.
C26_Witness ==
    /\ resp.op = "update_exam_recording"
    /\ resp.message = "link updated"
    /\ resp.id \in DOMAIN recs
    /\ recs[resp.id].video_link # NULL
    /\ recs[resp.id].time_ended # NULL
    /\ recs[resp.id].time_started < recs[resp.id].time_ended

\* C9: served one at a time, a create for a pair (exam_id, user_id) that has
\* a recording, without valid examiner credentials, is refused (401 for a
\* registered caller) and inserts no row; no pair ever has two recordings.
C9_DuplicateRejected ==
    [][ /\ resp'.op = "create_exam_recording" =>
             \A rq \in CreateRecordingRequests :
             LET data == rq.data IN
             ( /\ NamesPair(data)
               /\ RowsOfPair(recs, data) # {}
               /\ ~ValidExaminerCredentials(data)
               /\ create_exam_recording(rq.token, data) )
             => /\ recs' = recs
                /\ resp'.status # 201
                /\ RegisteredCaller(rq.token) => resp'.status = 401
        /\ \A a, b \in DOMAIN recs' :
             ( /\ recs'[a].exam_id = recs'[b].exam_id
               /\ recs'[a].user_id = recs'[b].user_id ) => a = b ]_vars

\* A second attempt has just been refused while the first recording stands.
C9_Witness ==
    /\ resp.op = "create_exam_recording"
    /\ resp.status = 401
    /\ resp.message = "previously attempted"
    /\ recs # Nothing

\* A step of Spec that serves a request of the handler op: every handler
\* overwrites resp with its own op, and Tick alone moves the clock.
Served(op) == resp'.op = op /\ now' = now

\* time_started + exam.duration, the three fields of the duration counted.
Due(er) == er.time_started + DurationSeconds(exams[er.exam_id].duration)

\* C3: every recording a listing returns whose time_ended was null and whose
\* time_started + exam.duration has passed is stored with time_ended =
\* time_started + exam.duration and is returned with that value.
C3_LazyExpiryOnRead ==
    [][(Served("get_exam_recording") /\ resp'.status = 200) =>
         \A i \in 1..Len(resp'.exam_recordings) :
            LET item == resp'.exam_recordings[i]
                r == item.exam_recording_id
            IN (recs[r].time_ended = NULL /\ now >= Due(recs[r]))
               => /\ recs'[r].time_ended = Due(recs[r])
                  /\ item.time_ended = Due(recs[r])]_vars

\* C4: every stored time_ended is at most time_started + exam.duration.
C4_BoundedEndTime ==
    \A r \in DOMAIN recs :
        recs[r].time_ended # NULL => recs[r].time_ended <= Due(recs[r])

\* C5: a warning created by an examiner for a recording is stored; with
\* fewer than MAX_WARNING_COUNT-1 prior warnings it leaves time_ended alone,
\* and as the MAX_WARNING_COUNT-th one it sets a null time_ended to now.
C5_WarningThreshold ==
    [][Served("create_exam_warning") =>
       \A data \in CreateWarningPayloads :
          ( /\ Has(data, "token")
            /\ data["token"] \in DOMAIN users
            /\ users[data["token"]].role_id = 1
            /\ RequiredExamWarning \subseteq DOMAIN data
            /\ data["exam_recording_id"] \in DOMAIN recs
            /\ create_exam_warning(data) )
          => LET r == data["exam_recording_id"]
                 prior == Cardinality({ w \in DOMAIN warns :
                                          warns[w].exam_recording_id = r })
                 after == Cardinality({ w \in DOMAIN warns' :
                                          warns'[w].exam_recording_id = r })
             IN /\ after = prior + 1
                /\ prior < MAX_WARNING_COUNT - 1 =>
                      recs'[r].time_ended = recs[r].time_ended
                /\ (after = MAX_WARNING_COUNT /\ recs[r].time_ended = NULL) =>
                      recs'[r].time_ended = now]_vars

\* C7: a create by a registered caller for a registered user who has no
\* recording of the exam inserts a row exactly when the exam exists and
\* start_date <= now < end_date, and inserts nothing otherwise.
C7_CreationWindow ==
    [][Served("create_exam_recording") =>
       \A rq \in CreateRecordingRequests :
          LET data == rq.data IN
          ( /\ RegisteredCaller(rq.token)
            /\ NamesPair(data)
            /\ DOMAIN data \subseteq ExamRecordingInitParams
            /\ data["user_id"] \in DOMAIN users
            /\ RowsOfPair(recs, data) = {}
            /\ create_exam_recording(rq.token, data) )
          => LET open == /\ data["exam_id"] \in DOMAIN exams
                         /\ exams[data["exam_id"]].start_date <= now
                         /\ now < exams[data["exam_id"]].end_date
             IN /\ open <=> resp'.status = 201
                /\ open => Cardinality(RowsOfPair(recs', data)) = 1
                /\ ~open => recs' = recs]_vars

\* C8: the row a successful create inserts has time_started = now and a
\* null time_ended, whatever the payload carries.
C8_StartsInProgress ==
    [][( /\ Served("create_exam_recording")
         /\ resp'.status = 201
         /\ resp'.id \notin DOMAIN recs )
       => /\ resp'.id \in DOMAIN recs'
          /\ recs'[resp'.id].time_started = now
          /\ recs'[resp'.id].time_ended = NULL]_vars

\* C10: a create for a pair that has a recording, inside the exam's window,
\* with credentials that authenticate as an examiner, answers 201, adds one
\* row for the pair and leaves every earlier row as it was.
C10_ExaminerOverride ==
    [][Served("create_exam_recording") =>
       \A rq \in CreateRecordingRequests :
          LET data == rq.data IN
          ( /\ RegisteredCaller(rq.token)
            /\ NamesPair(data)
            /\ RowsOfPair(recs, data) # {}
            /\ ValidExaminerCredentials(data)
            /\ data["exam_id"] \in DOMAIN exams
            /\ exams[data["exam_id"]].start_date <= now
            /\ now < exams[data["exam_id"]].end_date
            /\ create_exam_recording(rq.token, data) )
          => /\ resp'.status = 201
             /\ Cardinality(RowsOfPair(recs', data))
                  = Cardinality(RowsOfPair(recs, data)) + 1
             /\ \A r \in DOMAIN recs : recs'[r] = recs[r]]_vars

\* C2: a commit that carries a time_ended for a recording whose stored
\* time_ended another request has set in the meantime leaves every field of
\* that recording as stored, and a manual end answers a conflict instead of
\* 200.
C2_CompareAndSet ==
    [][\A w \in Workers :
         (sess[w].pc = "commit" /\ session_commit(w))
         => \A r \in DOMAIN sess[w].rows :
               recs[r].time_ended # NULL
               => /\ recs'[r] = recs[r]
                  /\ sess[w].op = "update_exam_recording"
                       => resp'.status \in {400, 409}]_vars

\* C11: the requests of SpecConc carry no examiner override, and however
\* their checks and inserts interleave, the table never holds two rows of
\* one (exam_id, user_id).
C11_NoSilentDuplicates ==
    \A a, b \in DOMAIN recs :
        (recs[a].exam_id = recs[b].exam_id /\ recs[a].user_id = recs[b].user_id)
        => a = b

\* C12: an examiner's warning for a stored recording goes on to its commit,
\* so that warnings add up to the threshold; and the commit of a warning
\* that counted MAX_WARNING_COUNT-1 earlier ones, landing on a recording
\* whose time_ended another request has set meanwhile, leaves that
\* recording as stored.
C12_ConcurrentThreshold ==
    [][\A w \in Workers :
         /\ ( /\ ConcWarningPayload["exam_recording_id"] \in DOMAIN recs
              /\ create_exam_warning_read(w, ConcWarningPayload) )
            => sess'[w].pc = "commit"
         /\ ( /\ sess[w].pc = "commit"
              /\ sess[w].op = "create_exam_warning"
              /\ session_commit(w) )
            => \A r \in DOMAIN sess[w].rows :
                  recs[r].time_ended # NULL => recs'[r] = recs[r]]_vars

----------------------------------------------------------------------------
(* Properties of the listings (SpecList, SpecListWarn) *)

\* A step that serves the listing request held in resp through the engine:
\* the examiner's request, answered 200.
EngineServes(op) ==
    /\ resp.op = "request"
    /\ resp.handler = op
    /\ resp.token = ExaminerId
    /\ resp'.op = op
    /\ resp'.status = 200

\* The rows of the answer.
ItemsOf(r) == IF r.op = "get_exam" THEN r.exams ELSE r.exam_recordings

\* The size of the filtered result set of the request held in resp.
ResultSetSize ==
    LET args == get_request_args(resp.args) IN
    IF resp.handler = "get_exam"
    THEN Cardinality({ e \in DOMAIN exams : ExamMatches(e, args) })
    ELSE Cardinality({ r \in DOMAIN recs : RecordingMatches(r, args, now) })

\* A request whose page_number and results_length are valid or absent, and
\* whose rows are not dropped after the engine by the in_progress test.
ValidPage(q) ==
    /\ q.page_number = NULL \/ q.page_number >= 1
    /\ q.results_length = NULL \/ q.results_length >= 1
    /\ q.in_progress # 1

Max(a, b) == IF a >= b THEN a ELSE b

\* The statement of C13 as made: min(p, n - offset) items on every page.
C13_PeekAheadAsClaimed ==
    [][\A op \in {"get_exam_recording", "get_exam"} :
         (EngineServes(op) /\ ValidPage(resp.args))
         => LET args == get_request_args(resp.args)
                offset == (args.page_number - 1) * args.results_length
            IN /\ Len(ItemsOf(resp')) = Min(args.results_length, ResultSetSize - offset)
               /\ Len(ItemsOf(resp')) <= args.results_length
               /\ resp'.next_page_exists
                    <=> ResultSetSize > offset + args.results_length]_vars

\* C13, amended: with offset = (page_number-1)*p over a filtered result set
\* of n rows, the listing returns min(p, n - offset) rows when offset <= n
\* and no row when the page lies beyond the end, never more than p, and
\* next_page_exists is true exactly when n > offset + p.
C13_PeekAhead ==
    [][\A op \in {"get_exam_recording", "get_exam"} :
         (EngineServes(op) /\ ValidPage(resp.args))
         => LET args == get_request_args(resp.args)
                offset == (args.page_number - 1) * args.results_length
            IN /\ Len(ItemsOf(resp'))
                    = Max(0, Min(args.results_length, ResultSetSize - offset))
               /\ Len(ItemsOf(resp')) <= args.results_length
               /\ resp'.next_page_exists
                    <=> ResultSetSize > offset + args.results_length]_vars

\* C13: a full page of two recordings was returned, with a further row
\* announced.
C13_Witness ==
    /\ resp.op = "get_exam_recording"
    /\ resp.status = 200
    /\ Len(resp.exam_recordings) = 2
    /\ Cardinality(DOMAIN recs) = 3
    /\ resp.next_page_exists

\* The page of a request as C14 states it: a page_number below 1 becomes 1,
\* a results_length outside [1, 100] becomes 25.
ClampedPage(q) ==
    [ page_number    |-> IF q.page_number = NULL \/ q.page_number < 1
                         THEN 1 ELSE q.page_number,
      results_length |-> IF q.results_length = NULL \/ q.results_length < 1
                              \/ q.results_length > 100
                         THEN 25 ELSE q.results_length ]

\* C14: every listing is answered from the clamped page: the engine reads
\* page_number >= 1 and a results_length in [1, 100], with 25 taken for a
\* results_length outside that range, so the answer holds the rows of that
\* page and at most 100 of them.
C14_PageClamping ==
    [][\A op \in {"get_exam_recording", "get_exam"} :
         (EngineServes(op) /\ resp.args.in_progress # 1)
         => LET page == ClampedPage(resp.args)
                offset == (page.page_number - 1) * page.results_length
            IN /\ get_request_args(resp.args).page_number = page.page_number
               /\ get_request_args(resp.args).results_length = page.results_length
               /\ Len(ItemsOf(resp'))
                    = Max(0, Min(page.results_length, ResultSetSize - offset))
               /\ Len(ItemsOf(resp')) <= 100]_vars

\* The stored row a listed item stands for.
RowOf(op, item) ==
    IF op = "get_exam" THEN exams[item.exam_id] ELSE recs[item.exam_recording_id]

\* The column C15 names for a request: the requested one when the kind
\* recognizes it, the kind's default otherwise.
SortColumn(op, q) ==
    IF op = "get_exam"
    THEN IF q.order_by \in {"end_date", "exam_name", "subject_id"}
         THEN q.order_by ELSE "start_date"
    ELSE IF q.order_by = "time_ended" THEN "time_ended" ELSE "time_started"

\* C15: the rows a listing returns are ordered by the requested column of
\* the kind in the requested direction, by the kind's default column when
\* order_by is not recognized, and descending when order is not asc.
C15_SortOrder ==
    [][\A op \in {"get_exam_recording", "get_exam"} :
         EngineServes(op)
         => LET items == ItemsOf(resp')
                col == SortColumn(op, resp.args)
            IN \A i \in 1..Len(items) : i < Len(items) =>
                 IF resp.args.order = "asc"
                 THEN RowOf(op, items[i])[col] <= RowOf(op, items[i + 1])[col]
                 ELSE RowOf(op, items[i])[col] >= RowOf(op, items[i + 1])[col]]_vars

\* A filter the query string supplies.
Supplied(v) == v # NULL

\* The recordings of the base query that satisfy every supplied filter of
\* the recording kind.
RecordingSatisfiesAll(r, q) ==
    LET er == recs[r]
        count == Cardinality({ w \in DOMAIN warns : warns[w].exam_recording_id = r })
    IN
    /\ er.user_id \in DOMAIN users
    /\ er.exam_id \in DOMAIN exams
    /\ Supplied(q.user_id) => er.user_id = q.user_id
    /\ Supplied(q.is_examiner) => users[er.user_id].is_examiner = (q.is_examiner = 1)
    /\ Supplied(q.exam_recording_id) => r = q.exam_recording_id
    /\ Supplied(q.subject_id) => exams[er.exam_id].subject_id = q.subject_id
    /\ Supplied(q.exam_id) => er.exam_id = q.exam_id
    /\ Supplied(q.warning_count) => count = q.warning_count
    /\ Supplied(q.min_warnings) => count >= q.min_warnings
    /\ Supplied(q.max_warnings) => count <= q.max_warnings
    /\ Supplied(q.period_start) => er.time_started # NULL /\ er.time_started >= q.period_start
    /\ Supplied(q.period_end) => er.time_ended # NULL /\ er.time_ended <= q.period_end

\* The exams that satisfy every supplied filter of the exam kind; the
\* aggregate filters are not among them.
ExamSatisfiesAll(e, q) ==
    /\ Supplied(q.subject_id) => exams[e].subject_id = q.subject_id
    /\ Supplied(q.exam_id) => e = q.exam_id
    /\ Supplied(q.period_start) => exams[e].start_date >= q.period_start
    /\ Supplied(q.period_end) => exams[e].end_date <= q.period_end
    /\ q.in_progress = 1 => exams[e].start_date <= now /\ exams[e].end_date >= now
    /\ q.in_progress = 0 => exams[e].end_date <= now

\* C16: a listing asked for its first page of default size returns exactly
\* the rows that satisfy every supplied filter of its kind, and the
\* aggregate warning filters change the answer of the recording listing
\* only.  (Recording listings with in_progress drop rows after the engine
\* and are left out.)
C16_FilterComposition ==
    [][/\ ( /\ EngineServes("get_exam_recording")
            /\ resp.args.page_number = NULL /\ resp.args.results_length = NULL
            /\ resp.args.in_progress = NULL )
          => { resp'.exam_recordings[i].exam_recording_id :
                 i \in 1..Len(resp'.exam_recordings) }
               = { r \in DOMAIN recs : RecordingSatisfiesAll(r, resp.args) }
       /\ ( /\ EngineServes("get_exam")
            /\ resp.args.page_number = NULL /\ resp.args.results_length = NULL )
          => { resp'.exams[i].exam_id : i \in 1..Len(resp'.exams) }
               = { e \in DOMAIN exams : ExamSatisfiesAll(e, resp.args) }]_vars

\* The number of warnings stored for recording r.
StoredWarnings(r) ==
    Cardinality({ w \in DOMAIN warns : warns[w].exam_recording_id = r })

C18_LazyExpiryIdempotent ==
    [][EngineServes("get_exam_recording")
       => /\ \A r \in DOMAIN recs : recs[r].time_ended # NULL => recs'[r] = recs[r]
          /\ \A i \in 1..Len(resp'.exam_recordings) :
               LET r == resp'.exam_recordings[i].exam_recording_id
                   e == exams[recs'[r].exam_id]
               IN /\ resp'.exam_recordings[i].time_ended
                       = datetime_to_str(recs'[r].time_ended)
                  /\ AfterLazyExpiry(recs'[r], e, now) = recs'[r]
                  /\ recs'[r].time_ended # NULL
                       => \A t \in now..MaxNow : AfterLazyExpiry(recs'[r], e, t) = recs'[r]]_vars

\* C18: a listing was answered with a recording that lazy expiry ended: its
\* reported and stored time_ended are its latest finish time, and the
\* listing ran when that time had passed.
C18_Witness ==
    /\ resp.op = "get_exam_recording"
    /\ resp.status = 200
    /\ \E i \in 1..Len(resp.exam_recordings) :
         LET r == resp.exam_recordings[i].exam_recording_id IN
         /\ resp.exam_recordings[i].time_ended = recs[r].time_ended
         /\ recs[r].time_ended = latest_finish_time(recs[r], exams[recs[r].exam_id])
         /\ recs[r].time_ended < now

----------------------------------------------------------------------------
(* Properties of the warning response (Spec) *)

\* The fields of the 201 body of create_exam_warning besides the warning
\* itself.
WarningResponseFields == {"op", "status", "message", "id", "warning_count"}

\* C19: an examiner's warning for a stored recording is answered 201 with
\* warning_count = prior_count + 1, the number of warnings then stored for
\* the recording, and with a field telling whether this request ended the
\* recording.
C19_WarningResponse ==
    [][Served("create_exam_warning") =>
       \A data \in CreateWarningPayloads :
          ( /\ Has(data, "token")
            /\ is_examiner(decode_auth_token(data["token"]))
            /\ pre_init_check(RequiredExamWarning, data) = {}
            /\ data["exam_recording_id"] \in DOMAIN recs
            /\ create_exam_warning(data) )
          => LET r == data["exam_recording_id"]
                 terminated == recs[r].time_ended = NULL /\ recs'[r].time_ended # NULL
             IN /\ resp'.status = 201
                /\ "warning_count" \in DOMAIN resp'
                /\ resp'.warning_count = Cardinality(prev_warnings(r)) + 1
                /\ resp'.warning_count
                     = Cardinality({ w \in DOMAIN warns' : warns'[w].exam_recording_id = r })
                /\ \E k \in DOMAIN resp' \ WarningResponseFields :
                      resp'[k] = terminated]_vars

----------------------------------------------------------------------------
(* Properties of the exams (SpecExam) *)

\* C20: every stored exam has start_date < end_date.
C20_ExamDateInvariant ==
    \A e \in DOMAIN exams : exams[e].start_date < exams[e].end_date

\* C21: an examiner's create whose start_date is after its end_date is
\* answered with a validation error (400, not 500) and stores no exam.
C21_CreateExamValidation ==
    [][Served("create_exam") =>
       \A rq \in CreateExamRequests :
          ( /\ is_examiner(authenticate_token(rq.token))
            /\ RequiredExam \subseteq DOMAIN rq.data
            /\ rq.data["start_date"] > rq.data["end_date"]
            /\ create_exam(rq.token, rq.data) )
          => /\ resp'.status = 400
             /\ exams' = exams]_vars

\* An exam that has started.
Started(e) == exams[e].start_date <= now

\* C22: an update or a delete of an exam with start_date <= now fails and
\* leaves the exams and the recordings as they are; a delete by the
\* examiner of an exam that has not started removes it.
C22_FrozenOnceStarted ==
    [][/\ Served("update_exam") =>
            \A rq \in UpdateExamRequests :
               ( /\ Has(rq.data, "exam_id")
                 /\ rq.data["exam_id"] \in DOMAIN exams
                 /\ Started(rq.data["exam_id"])
                 /\ update_exam(rq.token, rq.data) )
               => resp'.status >= 400 /\ exams' = exams /\ recs' = recs
       /\ Served("delete_exam") =>
            \A t \in {ExaminerId, ExamineeId}, e \in DOMAIN exams :
               delete_exam(t, e)
               => IF Started(e)
                  THEN resp'.status >= 400 /\ exams' = exams /\ recs' = recs
                  ELSE is_examiner(authenticate_token(t))
                         => resp'.status = 200 /\ e \notin DOMAIN exams']_vars

\* C22: a delete was refused for an exam that has started and has a
\* recording.
C22_Witness ==
    /\ resp.op = "delete_exam"
    /\ resp.status = 405
    /\ \E r \in DOMAIN recs : recs[r].exam_id \in DOMAIN exams /\ Started(recs[r].exam_id)

\* C23: no two stored exams share a login_code.
C23_LoginCodeUnique ==
    \A a, b \in DOMAIN exams : a # b => exams[a].login_code # exams[b].login_code

----------------------------------------------------------------------------
(* Properties of the mutations (SpecMut) *)

\* The three tables.
Tables == <<exams, recs, warns>>

\* A caller's token that does not decode to an examiner.
NotExaminer(token) ==
    ~(token \in DOMAIN users /\ users[token].role_id = 1)

\* C24: a create, update or delete of an exam, a delete of a recording and
\* a create, update or delete of a warning by a caller who is not an
\* examiner is answered 403 and leaves the three tables as they are.
C24_ExaminerOnlyMutations ==
    [][\A t \in MutationTokens : NotExaminer(t) =>
         \A e \in 1..MaxExams, r \in 1..MaxRecordings :
           ( \/ create_exam(t, MutExamBody)
             \/ update_exam(t, ("exam_id" :> 1) @@ MutExamBody)
             \/ delete_exam(t, e)
             \/ delete_exam_recording(t, r)
             \/ \E data \in MutWarningPayloads :
                  Has(data, "token") /\ data["token"] = t /\ create_exam_warning(data)
             \/ update_exam_warning(t, ("exam_warning_id" :> 1) @@ ("description" :> 2))
             \/ delete_exam_warning(t, 1) )
           => resp'.status = 403 /\ Tables' = Tables]_vars

\* C24: a delete of a recording was refused with 403 while the recording
\* was stored.
C24_Witness ==
    /\ resp.op = "delete_exam_recording"
    /\ resp.status = 403
    /\ recs # Nothing

----------------------------------------------------------------------------
(* Properties of the listings' access control (SpecListWarn) *)

\* The rows of a listing answer.
ListedRows(r) ==
    IF r.op = "get_exam_recording" THEN r.exam_recordings
    ELSE IF r.op = "get_exam_warning" THEN r.exam_warnings
    ELSE r.users

\* C25: the recording, warning and examinee listings answer a caller who is
\* no examiner with 403, unless the user_id asked for is the caller's own;
\* then they answer 200 and every row is of the caller's user_id.
C25_ListingConfinement ==
    [][\A op \in {"get_exam_recording", "get_exam_warning", "get_examinee"} :
         ( /\ resp.op = "request"
           /\ resp.handler = op
           /\ NotExaminer(resp.token)
           /\ resp'.op = op )
         => IF resp.token \in DOMAIN users /\ resp.args.user_id = resp.token
            THEN /\ resp'.status = 200
                 /\ \A i \in 1..Len(ListedRows(resp')) :
                      ListedRows(resp')[i].user_id = resp.token
            ELSE resp'.status = 403]_vars

\* C25: the examinee listing answered the examinee with the examinee's own
\* row alone, while recordings of two users are stored.
C25_Witness ==
    /\ resp.op = "get_examinee"
    /\ resp.status = 200
    /\ Len(resp.users) = 1
    /\ resp.users[1].user_id = ExamineeId
    /\ \E r \in DOMAIN recs : recs[r].user_id # ExamineeId

\* C27: the exam, warning and examinee listings leave every table as it was;
\* the recording listing leaves exams and warnings as they were, and a row
\* of recordings it changes had a null time_ended, has time_started +
\* exam.duration in the past, and differs from the old row in time_ended
\* alone.
C27_ListingsReadOnly ==
    [][/\ \A op \in {"get_exam", "get_exam_warning", "get_examinee"} :
            Served(op) => Tables' = Tables
       /\ Served("get_exam_recording") =>
            /\ exams' = exams
            /\ warns' = warns
            /\ DOMAIN recs' = DOMAIN recs
            /\ \A r \in DOMAIN recs :
                  recs'[r] # recs[r] =>
                     /\ recs[r].time_ended = NULL
                     /\ now >= Due(recs[r])
                     /\ recs'[r] = [recs[r] EXCEPT !.time_ended = recs'[r].time_ended]]_vars

\* C28: a request to end a recording or to set its video link, by a caller
\* who is no examiner, for a stored recording of another user is answered
\* 403 and leaves the recordings as they were.
C28_RecordingOwnership ==
    [][resp'.op = "update_exam_recording" =>
       \A rq \in UpdateRecordingRequests :
          LET caller == authenticate_token(rq.token)
              id == rq.d.exam_recording_id
          IN ( /\ ~is_examiner(caller)
               /\ rq.d.action \in {"end", "update_link"}
               /\ id \in DOMAIN recs
               /\ recs[id].user_id # caller
               /\ update_exam_recording(rq.token, rq.user_id, rq.d) )
             => /\ resp'.status = 403
                /\ recs' = recs]_vars

TimesSeen(r) == Cardinality({ i \in 1..Len(pager.seen) : pager.seen[i] = r })

\* C31: when the client has read the last page, every recording that
\* matched the query at the first request has been returned exactly once,
\* and no other.
C31_CompletePaging ==
    pager.pc = "done" =>
        /\ \A r \in pager.first : TimesSeen(r) = 1
        /\ \A i \in 1..Len(pager.seen) : pager.seen[i] \in pager.first

\* C32: the answer to a recording listing asked with in_progress=1 has no
\* row of a recording that had a time_ended or whose time_started +
\* exam.duration has passed, and no row with a time_ended; a recording the
\* listing expires is stored with its time_ended and is not in the answer.
C32_InProgressListing ==
    [][( /\ resp.op = "request"
         /\ resp.handler = "get_exam_recording"
         /\ resp.args.in_progress = 1
         /\ Served("get_exam_recording")
         /\ resp'.status = 200 )
       => LET rows == resp'.exam_recordings
              ids == { rows[i].exam_recording_id : i \in 1..Len(rows) }
          IN /\ \A i \in 1..Len(rows) :
                   /\ rows[i].time_ended = NULL
                   /\ recs[rows[i].exam_recording_id].time_ended = NULL
                   /\ now < Due(recs[rows[i].exam_recording_id])
             /\ \A r \in DOMAIN recs :
                   recs'[r] # recs[r] =>
                      /\ recs'[r].time_ended # NULL
                      /\ r \notin ids]_vars

\* C32: a listing answered with the one recording in progress, while another
\* recording is stored as ended at its deadline.
C32_Witness ==
    /\ resp.op = "get_exam_recording"
    /\ resp.status = 200
    /\ Len(resp.exam_recordings) = 1
    /\ resp.exam_recordings[1].time_ended = NULL
    /\ \E r \in DOMAIN recs :
          /\ r # resp.exam_recordings[1].exam_recording_id
          /\ recs[r].time_ended = Due(recs[r])
          /\ recs[r].time_ended = now
    /\ \A r \in DOMAIN recs :
          recs[r].time_ended = NULL => r = resp.exam_recordings[1].exam_recording_id

\* C33: every stored recording has a time_started, and a time_ended, when
\* it has one, that is not before its time_started.
C33_StartPrecedesEnd ==
    \A r \in DOMAIN recs :
        /\ recs[r].time_started # NULL
        /\ recs[r].time_ended # NULL => recs[r].time_started <= recs[r].time_ended

\* C34: a create of a recording by a caller who is no examiner, answered
\* 201, stores a recording whose user_id is the caller's.
C34_CreatorOwnsRecording ==
    [][resp'.op = "create_exam_recording" =>
       \A rq \in CreateRecordingRequests :
          LET caller == authenticate_token(rq.token) IN
          ( /\ ~is_examiner(caller)
            /\ create_exam_recording(rq.token, rq.data)
            /\ resp'.status = 201 )
          => recs'[next_recording_id].user_id = caller]_vars

\* C35: after an update of an exam that has not started is answered 200,
\* the stored exam, which is what a later read returns, carries the updated
\* fields.
C35_ExamUpdateDurable ==
    [][resp'.op = "update_exam" =>
       \A rq \in UpdateExamRequests :
          ( /\ update_exam(rq.token, rq.data)
            /\ resp'.status = 200 )
          => exams'[rq.data["exam_id"]] = UpdatedExam(exams[rq.data["exam_id"]], rq.data)]_vars

\* C36: a create_exam that has entered the loop for a login code leaves the
\* handler, with an exam stored or with an error.
C36_CreateExamTerminates ==
    \A w \in Workers : (sess[w].pc \in {"generate", "lookup"}) ~> (sess[w] = Idle)

\* Every warning is of a stored recording and every recording is of a
\* stored exam.
ReferencesHold ==
    /\ \A w \in DOMAIN warns : warns[w].exam_recording_id \in DOMAIN recs
    /\ \A r \in DOMAIN recs : recs[r].exam_id \in DOMAIN exams

=============================================================================
